---- MODULE Spec2Model ----
(***************************************************************************)
(* A model of the FMCSA lead-scoring package (python_data_functions):      *)
(*   - FMCALeadScorer.calculate_comprehensive_score and its helpers        *)
(*     (lead_scoring.py), with the pandas semantics the code relies on:    *)
(*     row labels, left merge with a fresh 0..m-1 index, label-aligned     *)
(*     series arithmetic, NaN and exceptions;                              *)
(*   - FMCSADataDownloader (api.py): bounded retry and the all-datasets    *)
(*     loop, and its file writes when two runs overlap;                    *)
(*   - the arbitrage heuristics of app.py, the census filters and the      *)
(*     fixed-width parser (parsers.py, leads.py), validate_carrier_data    *)
(*     (utils.py) and the command line (main.py).                          *)
(*                                                                         *)
(* Units.  Scores are held in tenths (3.5 is 35), weights in hundredths    *)
(* (0.25 is 25), composite scores in thousandths (3.5 is 3500), so the     *)
(* arithmetic is exact.  Floating-point rounding is not modelled.          *)
(***************************************************************************)
EXTENDS Integers, Sequences, FiniteSets, TLC

VARIABLES
    \* ---- calculate_comprehensive_score (one call) ----
    census_df,          \* the caller's census table
    sms_df,             \* the caller's optional SMS table (None when absent)
    li_df,              \* the caller's optional L&I table (None when absent)
    called_with,        \* the three arguments as they were when the call began
    scored_df,          \* the callee's local copy (line 58)
    component_scores,   \* component name -> Series, for the components computed so far
    pc,                 \* position inside the call
    result,             \* what the call returned or raised
    \* ---- pure functions applied to drawn inputs ----
    fn_in,              \* the input the function was applied to
    fn_out,             \* what it produced
    fn_pc,              \* which function has been applied ("idle" before)
    \* ---- FMCSADataDownloader ----
    dl_pc,              \* position inside the downloader
    dl_mode,            \* "all" (download_all_datasets) or "single" (download_dataset)
    dl_queue,           \* dataset keys download_all_datasets has still to visit
    dl_key,             \* the dataset being downloaded
    attempt,            \* loop variable of _download_with_retry
    last_exception,     \* last_exception of _download_with_retry
    attempt_log,        \* outcome of every attempt made for dl_key, in order
    dl_results,         \* results of download_all_datasets: the keys it holds
    dl_visited,         \* keys on which download_dataset has been called, in order
    dl_succeeded,       \* keys whose download returned normally
    dl_raised,          \* the exception download_dataset raised for dl_key ("" when none)
    dl_escaped,         \* the exception that left the entry point called ("" when none)
    \* ---- main (the command line) ----
    cli_pc,             \* position inside main
    args,               \* the parsed arguments
    downloaded_files,   \* downloaded_files of main: the keys it holds, in order
    datasets,           \* datasets of main: the names it holds
    cli_queue,          \* downloaded files the auto-processing loop has still to visit
    cli_log,            \* every call main has made, in order
    \* ---- the downloader's file writes, two runs ----
    files,              \* path -> the chunks the file holds
    w_pc,               \* run -> position inside download_dataset / _download_with_retry
    w_path,             \* run -> output_path
    w_attempt,          \* run -> loop variable attempt
    w_response,         \* run -> the response of the current attempt
    w_offset,           \* run -> position of the run's file handle, in chunks
    w_waits,            \* run -> the arguments of time.sleep so far, in order
    w_partial           \* run -> whether a failed attempt of the run left chunks in the file

score_vars == <<census_df, sms_df, li_df, called_with, scored_df, component_scores, pc, result>>
fn_vars == <<fn_in, fn_out, fn_pc>>
dl_vars == <<dl_pc, dl_mode, dl_queue, dl_key, attempt, last_exception, attempt_log,
             dl_results, dl_visited, dl_succeeded, dl_raised, dl_escaped>>
cli_vars == <<cli_pc, args, downloaded_files, datasets, cli_queue, cli_log>>
wr_vars == <<files, w_pc, w_path, w_attempt, w_response, w_offset, w_waits, w_partial>>
vars == <<score_vars, fn_vars, dl_vars, cli_vars, wr_vars>>

(***************************************************************************)
(* Values.  A cell of a table or a series is NaN or holds one value.       *)
(* Unparsable stands for a text that pd.to_numeric cannot read.            *)
(***************************************************************************)
NaN == <<>>
Num(v) == <<v>>
Unparsable == <<0, 0>>
IsNaN(c) == c = NaN
Pts(x) == 10 * x

\* The outcome of a Python call: a value, or an exception.
Ok(v) == [ok |-> TRUE, exc |-> "", val |-> v]
Raised(e) == [ok |-> FALSE, exc |-> e, val |-> <<>>]
NotYet == [ok |-> FALSE, exc |-> "not called", val |-> <<>>]

\* A table: its column names and its rows in order (each row carries its label).
None == [none |-> TRUE, cols |-> {}, rows |-> <<>>]
Frame(cols, rows) == [none |-> FALSE, cols |-> cols, rows |-> rows]
HasCol(df, col) == col \in df.cols
Labels(df) == {df.rows[i].label : i \in 1..Len(df.rows)}
RowAt(df, l) == df.rows[CHOOSE i \in 1..Len(df.rows) : df.rows[i].label = l]

\* The index of a merged table of m rows is 0..m-1: row l is rows[l + 1].
MergedIndex(rows) == 0..(Len(rows) - 1)

HasNaN(s) == \E l \in DOMAIN s : IsNaN(s[l])
\* pd.to_numeric(errors='coerce').fillna(d) on one cell: a number stays, a null or
\* an unreadable text becomes d.
NumericOr(c, d) == IF Len(c) = 1 THEN c[1] ELSE d
\* Series.fillna(d) on one cell.
FillNa(c, d) == IF IsNaN(c) THEN Num(d) ELSE c
\* Series + Series: the union of the labels, NaN where either side has none.
SeriesAdd(a, b) ==
    [l \in (DOMAIN a) \cup (DOMAIN b) |->
        IF l \in DOMAIN a /\ l \in DOMAIN b /\ ~IsNaN(a[l]) /\ ~IsNaN(b[l])
        THEN Num(a[l][1] + b[l][1]) ELSE NaN]
SeriesScale(a, k) == [l \in DOMAIN a |-> IF IsNaN(a[l]) THEN NaN ELSE Num(a[l][1] * k)]
\* Series.clip(lower, upper); NaN stays NaN.
Clip(s, lo, hi) ==
    [l \in DOMAIN s |->
        IF IsNaN(s[l]) THEN NaN
        ELSE IF s[l][1] < lo THEN Num(lo) ELSE IF s[l][1] > hi THEN Num(hi) ELSE s[l]]
ClipUpper(s, hi) ==
    [l \in DOMAIN s |-> IF IsNaN(s[l]) THEN NaN ELSE IF s[l][1] > hi THEN Num(hi) ELSE s[l]]
BoolInt(b) == IF b THEN 1 ELSE 0

(***************************************************************************)
(* Text.  The texts of the model are the strings below; str.lower and      *)
(* str.contains are tabulated on them.                                     *)
(***************************************************************************)
LowerCase(s) ==
    CASE s = "CARRIER" -> "carrier"
      [] s = "Broker" -> "broker"
      [] s = "ACTIVE" -> "active"
      [] s = "REVOKED" -> "revoked"
      [] s = "INACTIVE" -> "inactive"
      [] s = "SUSPENDED" -> "suspended"
      [] s = "Valid" -> "valid"
      [] s = "Trump" -> "trump"
      [] s = "Election" -> "election"
      [] s = "Reefer" -> "reefer"
      [] s = "Flatbed" -> "flatbed"
      [] s = "Active" -> "active"
      [] s = "Unsatisfactory" -> "unsatisfactory"
      [] s = "Conditional" -> "conditional"
      [] OTHER -> s

\* The keywords of the code that occur in a (lower-cased) text as substrings.
KeywordsIn(s) ==
    CASE s = "carrier" -> {"carrier"}
      [] s = "broker" -> {"broker"}
      [] s = "active" -> {"active"}
      [] s = "revoked" -> {"revoked"}
      [] s = "inactive" -> {"active"}
      [] s = "suspended" -> {"suspended"}
      [] s = "valid" -> {"valid"}
      [] s = "unsatisfactory" -> {"unsatisfactory"}
      [] s = "conditional" -> {"conditional"}
      [] s = "hazmat reefer" -> {"hazmat", "reefer"}
      [] s = "reefer" -> {"reefer"}
      [] s = "flatbed" -> {"flatbed"}
      [] OTHER -> {}

\* str.lower().fillna('') on one cell.
LowerOrEmpty(c) == IF IsNaN(c) THEN "" ELSE LowerCase(c[1])
\* str.contains('kw1|kw2|...') on one text.
Contains(s, kws) == KeywordsIn(s) \cap kws # {}

(***************************************************************************)
(* DataFrame.merge(right, on='dot_number', how='left') with                *)
(* left = census_df[['dot_number']]: for every left row, in order, the     *)
(* right rows with the same key, in the right table's order, or one row of *)
(* nulls.  The result is indexed 0..m-1 whatever the left labels were.     *)
(***************************************************************************)
RECURSIVE MergeLeft(_, _, _, _)
MergeLeft(leftRows, rightRows, nullRow, i) ==
    IF i > Len(leftRows) THEN <<>>
    ELSE LET key == leftRows[i].dot_number
             hits == SelectSeq(rightRows, LAMBDA r : r.dot_number = key)
         IN  (IF hits = <<>> THEN <<[nullRow EXCEPT !.dot_number = key]>> ELSE hits)
                 \o MergeLeft(leftRows, rightRows, nullRow, i + 1)

NullSmsRow ==
    [dot_number |-> 0, power_units |-> NaN, drivers |-> NaN, vmt |-> NaN,
     safety_rating |-> NaN, total_inspections |-> NaN, basics |-> <<NaN, NaN, NaN, NaN, NaN, NaN>>]
NullLiRow ==
    [dot_number |-> 0, authority_status |-> NaN, bond_status |-> NaN, bond_amount |-> NaN]

SmsGrowthCols == {"dot_number", "power_units", "drivers", "vmt"}
\* "basics" stands for the six BASIC score columns, held together as one tuple per row.
SmsSafetyCols == {"dot_number", "safety_rating", "total_inspections", "basics"}
LiCols == {"dot_number", "authority_status", "bond_status", "bond_amount"}

(***************************************************************************)
(* _calculate_growth_score                                                 *)
(***************************************************************************)
\* The same bins closed on the left instead of the right.
FleetBucketLeftClosed(v) ==
    IF v < 0 THEN NaN
    ELSE IF v < 1 THEN Num(Pts(0))
    ELSE IF v < 5 THEN Num(Pts(1))
    ELSE IF v < 10 THEN Num(Pts(2))
    ELSE IF v < 20 THEN Num(Pts(3))
    ELSE IF v < 50 THEN Num(Pts(4))
    ELSE Num(Pts(5))
\* pd.cut(fleet_size, bins=[0,1,5,10,20,50,inf], labels=[0..5], include_lowest=True)
FleetBucket(v) ==
    IF v < 0 THEN NaN
    ELSE IF v <= 1 THEN Num(Pts(0))
    ELSE IF v <= 5 THEN Num(Pts(1))
    ELSE IF v <= 10 THEN Num(Pts(2))
    ELSE IF v <= 20 THEN Num(Pts(3))
    ELSE IF v <= 50 THEN Num(Pts(4))
    ELSE Num(Pts(5))

\* pd.cut(power_units / drivers, bins=[0,1.5,2,inf], labels=[0,1,2], include_lowest=True);
\* x/0 is inf for x > 0 and NaN for x = 0.
UtilizationBucket(pu, d) ==
    IF pu < 0 \/ d < 0 THEN NaN
    ELSE IF d = 0 THEN (IF pu = 0 THEN NaN ELSE Num(Pts(2)))
    ELSE IF 2 * pu <= 3 * d THEN Num(Pts(0))
    ELSE IF pu <= 2 * d THEN Num(Pts(1))
    ELSE Num(Pts(2))

\* (vmt / power_units.replace(0, 1) >= 50000).astype(int)
VmtScore(vmt, pu) == Pts(BoolInt(vmt >= 50000 * (IF pu = 0 THEN 1 ELSE pu)))

FleetScores(df) ==
    [l \in Labels(df) |-> FleetBucket(NumericOr(RowAt(df, l).fleet_size, 0))]

_calculate_growth_score(df, sms) ==
    IF ~HasCol(df, "fleet_size") THEN Raised("AttributeError")
    ELSE IF HasNaN(FleetScores(df)) THEN Raised("ValueError")
    ELSE IF sms.none \/ ~HasCol(sms, "dot_number") THEN Ok(FleetScores(df))
    ELSE IF ~HasCol(df, "dot_number") \/ ~(SmsGrowthCols \subseteq sms.cols) THEN Raised("KeyError")
    ELSE LET merged == MergeLeft(df.rows, sms.rows, NullSmsRow, 1)
             power_units(l) == NumericOr(merged[l + 1].power_units, 0)
             drivers(l) == NumericOr(merged[l + 1].drivers, 1)
             vmt(l) == NumericOr(merged[l + 1].vmt, 0)
             utilization_scores ==
                 [l \in MergedIndex(merged) |-> UtilizationBucket(power_units(l), drivers(l))]
             vmt_scores == [l \in MergedIndex(merged) |-> Num(VmtScore(vmt(l), power_units(l)))]
         IN  IF HasNaN(utilization_scores) THEN Raised("ValueError")
             ELSE Ok(ClipUpper(SeriesAdd(SeriesAdd(FleetScores(df), utilization_scores), vmt_scores),
                               Pts(5)))

(***************************************************************************)
(* _calculate_legitimacy_score                                             *)
(***************************************************************************)
LegitimacyBase(df) ==
    [l \in Labels(df) |->
        LET entity_type == LowerOrEmpty(RowAt(df, l).entity_type)
            operation == LowerOrEmpty(RowAt(df, l).carrier_operation)
        IN  Num(Pts(3 + BoolInt(Contains(entity_type, {"carrier"}) \/ Contains(operation, {"carrier"}))
                      + BoolInt(Contains(entity_type, {"broker"}) \/ Contains(operation, {"broker"}))))]

_calculate_legitimacy_score(df, li) ==
    IF ~HasCol(df, "entity_type") \/ ~HasCol(df, "carrier_operation") THEN Raised("AttributeError")
    ELSE IF li.none \/ ~HasCol(li, "dot_number") THEN Ok(Clip(LegitimacyBase(df), Pts(0), Pts(5)))
    ELSE IF ~HasCol(df, "dot_number") \/ ~(LiCols \subseteq li.cols) THEN Raised("KeyError")
    ELSE LET merged == MergeLeft(df.rows, li.rows, NullLiRow, 1)
             authority_status(l) == LowerOrEmpty(merged[l + 1].authority_status)
             bond_status(l) == LowerOrEmpty(merged[l + 1].bond_status)
             bond_amount(l) == NumericOr(merged[l + 1].bond_amount, 0)
             authority_scores ==
                 [l \in MergedIndex(merged) |->
                     Num(Pts(BoolInt(Contains(authority_status(l), {"active"}))
                             - 2 * BoolInt(Contains(authority_status(l), {"revoked", "suspended"}))))]
             bond_scores ==
                 [l \in MergedIndex(merged) |->
                     Num(Pts(BoolInt(Contains(bond_status(l), {"active", "valid"}))
                             + BoolInt(bond_amount(l) >= 75000)))]
         IN  Ok(Clip(SeriesAdd(SeriesAdd(LegitimacyBase(df), authority_scores), bond_scores),
                     Pts(0), Pts(5)))

(***************************************************************************)
(* _calculate_safety_score                                                 *)
(***************************************************************************)
RECURSIVE CellSum(_, _)
CellSum(cells, i) ==
    IF i > Len(cells) THEN 0
    ELSE (IF Len(cells[i]) = 1 THEN cells[i][1] ELSE 0) + CellSum(cells, i + 1)
CellCount(cells) == Cardinality({i \in 1..Len(cells) : Len(cells[i]) = 1})

\* From the row's BASIC columns: mean(axis=1) skipping nulls, fillna(0), then
\* +1 when the mean is >= 3 and +0.5 when it is in [2, 3).
BasicScore(cells) ==
    LET n == CellCount(cells)
        total == CellSum(cells, 1)
    IN  IF n = 0 THEN 0
        ELSE IF total >= 3 * n THEN Pts(1)
        ELSE IF total >= 2 * n THEN Pts(1) \div 2
        ELSE 0

\* pd.cut(inspections, bins=[0,20,50,inf], labels=[0,0.5,1], include_lowest=True).astype(float)
InspectionBucket(v) ==
    IF v < 0 THEN NaN
    ELSE IF v <= 20 THEN Num(Pts(0))
    ELSE IF v <= 50 THEN Num(Pts(1) \div 2)
    ELSE Num(Pts(1))

_calculate_safety_score(df, sms) ==
    LET base_scores == [l \in Labels(df) |-> Num(Pts(3))]
    IN  IF sms.none \/ ~HasCol(sms, "dot_number") THEN Ok(base_scores)
        ELSE IF ~HasCol(df, "dot_number") \/ ~(SmsSafetyCols \subseteq sms.cols) THEN Raised("KeyError")
        ELSE LET merged == MergeLeft(df.rows, sms.rows, NullSmsRow, 1)
                 safety_rating(l) == LowerOrEmpty(merged[l + 1].safety_rating)
                 safety_scores ==
                     [l \in MergedIndex(merged) |->
                         Num(Pts(2 * BoolInt(Contains(safety_rating(l), {"unsatisfactory"}))
                                 + BoolInt(Contains(safety_rating(l), {"conditional"})))
                             + BasicScore(merged[l + 1].basics))]
                 inspection_scores ==
                     [l \in MergedIndex(merged) |->
                         InspectionBucket(NumericOr(merged[l + 1].total_inspections, 0))]
             IN  Ok(ClipUpper(SeriesAdd(SeriesAdd(base_scores, safety_scores), inspection_scores),
                              Pts(5)))

(***************************************************************************)
(* _calculate_contact_score                                                *)
(***************************************************************************)
\* Attribute lookup on a DataFrame: pandas defines no DataFrame.str, so the
\* lookup falls back to a column of that name and raises when there is none.
DataFrameAttr(cols, name) == IF name \in cols THEN Ok(name) ELSE Raised("AttributeError")

AddressFields == {"phy_city", "phy_state", "phy_zip"}

\* r'^[^@]+@[^@]+\.[^@]+$' and str.endswith('.com'), tabulated on the model's texts.
EmailValid(s) == s \in {"a@b.com", "a@b.org"}
EmailDotCom(s) == s \in {"a@b.com"}
\* len(str.replace(r'\D', '')), tabulated on the model's texts.
DigitCount(s) == CASE s = "555-123-4567" -> 10 [] s = "1-555-123-4567" -> 11 [] OTHER -> 0
\* pd.cut(digits, bins=[0,7,10,inf], labels=[0,1,2], include_lowest=True)
PhoneBucket(n) == IF n <= 7 THEN Pts(0) ELSE IF n <= 10 THEN Pts(1) ELSE Pts(2)

EmailPhoneScore(df) ==
    LET email == [l \in Labels(df) |->
                     IF IsNaN(RowAt(df, l).email) THEN "" ELSE RowAt(df, l).email[1]]
        phone == [l \in Labels(df) |->
                     IF IsNaN(RowAt(df, l).phone) THEN "" ELSE RowAt(df, l).phone[1]]
    IN  [l \in Labels(df) |->
            Num(Pts(2 * BoolInt(EmailValid(email[l])))
                + (Pts(1) \div 2) * BoolInt(EmailValid(email[l]) /\ EmailDotCom(email[l]))
                + PhoneBucket(DigitCount(phone[l])))]

\* Line 213 selects census_df[address_fields] (a DataFrame) and reads its .str.
_calculate_contact_score(df) ==
    IF ~HasCol(df, "email") \/ ~HasCol(df, "phone") THEN Raised("AttributeError")
    ELSE IF ~(AddressFields \subseteq df.cols) THEN Raised("KeyError")
    ELSE LET accessor == DataFrameAttr(AddressFields, "str")
             address_complete ==
                 [l \in Labels(df) |->
                     Num(Pts(Cardinality({f \in AddressFields :
                                              RowAt(df, l)[f] \notin {NaN, Num("")}})))]
         IN  IF ~accessor.ok THEN Raised(accessor.exc)
             ELSE Ok(ClipUpper(SeriesAdd(EmailPhoneScore(df), address_complete), Pts(5)))

(***************************************************************************)
(* _calculate_specialization_score, _calculate_recency_score               *)
(***************************************************************************)
HazmatWords == {"hazmat", "hazardous", "chemical", "explosive", "radioactive"}
SpecializedWords == {"refrigerated", "reefer", "temperature_controlled", "oversized", "heavy_haul"}
ValuableWords == {"household_goods", "electronics", "pharmaceutical", "automotive", "machinery"}
TimeSensitiveWords == {"perishable", "fresh_produce", "dairy", "meat", "bakery"}

_calculate_specialization_score(df) ==
    IF ~HasCol(df, "cargo_carried") THEN Raised("AttributeError")
    ELSE Ok(ClipUpper(
             [l \in Labels(df) |->
                 LET cargo == LowerOrEmpty(RowAt(df, l).cargo_carried)
                 IN  Num(Pts(1) + Pts(2) * BoolInt(Contains(cargo, HazmatWords))
                         + (Pts(3) \div 2) * BoolInt(Contains(cargo, SpecializedWords))
                         + Pts(1) * BoolInt(Contains(cargo, ValuableWords))
                         + Pts(1) * BoolInt(Contains(cargo, TimeSensitiveWords))
                         + (Pts(1) \div 2) * BoolInt(Contains(cargo, {"intermodal"}))
                         + (Pts(1) \div 2) * BoolInt(Contains(cargo, {"international"})))],
             Pts(5)))

\* pd.cut(days, bins=[0,30,90,365,730,inf], labels=[5,4,3,2,1], include_lowest=True),
\* then fillna(3).  A cell of add_date holds the days since registration.
RecencyBucket(d) ==
    IF d < 0 THEN NaN
    ELSE IF d <= 30 THEN Num(Pts(5))
    ELSE IF d <= 90 THEN Num(Pts(4))
    ELSE IF d <= 365 THEN Num(Pts(3))
    ELSE IF d <= 730 THEN Num(Pts(2))
    ELSE Num(Pts(1))

_calculate_recency_score(df) ==
    IF ~HasCol(df, "add_date") THEN Raised("TypeError")
    ELSE Ok([l \in Labels(df) |->
                LET days == RowAt(df, l).add_date
                IN  FillNa(IF Len(days) = 1 THEN RecencyBucket(days[1]) ELSE NaN, Pts(3))])

(***************************************************************************)
(* calculate_comprehensive_score: composite score, tier, ordering          *)
(***************************************************************************)
ComponentOrder ==
    <<"growth_potential", "legitimacy", "safety_compliance",
      "contact_quality", "specialization_value", "company_recency">>

\* The same six weights with the first two exchanged: still summing to one, but
\* not the documented formula.
scoring_weights_exchanged ==
    [growth_potential |-> 20, legitimacy |-> 25, safety_compliance |-> 20,
     contact_quality |-> 15, specialization_value |-> 10, company_recency |-> 10]
\* self.scoring_weights, in hundredths.
scoring_weights ==
    [growth_potential |-> 25, legitimacy |-> 20, safety_compliance |-> 20,
     contact_quality |-> 15, specialization_value |-> 10, company_recency |-> 10]

\* sum(component_scores[c] * weight for c, weight in scoring_weights.items())
RECURSIVE WeightedSum(_, _)
WeightedSum(components, i) ==
    IF i = 0 THEN <<>>
    ELSE LET c == ComponentOrder[i]
             term == SeriesScale(components[c], scoring_weights[c])
         IN  IF i = 1 THEN term ELSE SeriesAdd(WeightedSum(components, i - 1), term)

\* scored_df['composite_score'] = series: the series is read at the table's labels.
CompositeScore(components, labels) ==
    LET total == WeightedSum(components, Len(ComponentOrder))
    IN  [l \in labels |-> IF l \in DOMAIN total THEN total[l] ELSE NaN]

\* pd.cut(composite, bins=[0, 2, 3.5, 5, inf], labels=[...]) on one value (in thousandths).
LeadTier(cell) ==
    IF IsNaN(cell) THEN NaN
    ELSE IF cell[1] <= 0 THEN NaN
    ELSE IF cell[1] <= 2000 THEN Num("Low Priority")
    ELSE IF cell[1] <= 3500 THEN Num("Medium Priority")
    ELSE IF cell[1] <= 5000 THEN Num("High Priority")
    ELSE Num("Top Tier")

RowOrders(n) == {p \in [1..n -> 1..n] : \A i, j \in 1..n : i # j => p[i] # p[j]}

\* rows.sort_values('composite_score', ascending=False), default kind='quicksort'
\* (not a stable sort) and na_position='last': every order in which the scores
\* descend and the rows without a score follow, these in their input order.
sort_values(rows) ==
    {[i \in 1..Len(rows) |-> rows[p[i]]] : p \in
        {q \in RowOrders(Len(rows)) :
            \A i, j \in 1..Len(rows) : i < j =>
                LET a == rows[q[i]].composite_score
                    b == rows[q[j]].composite_score
                IN  /\ ~(IsNaN(a) /\ ~IsNaN(b))
                    /\ (~IsNaN(a) /\ ~IsNaN(b)) => a[1] >= b[1]
                    /\ (IsNaN(a) /\ IsNaN(b)) => q[i] < q[j]}}

\* The rows of scored_df with the two new columns, before sorting.
ScoredRows(df, components) ==
    LET composite == CompositeScore(components, Labels(df))
    IN  [i \in 1..Len(df.rows) |->
            [label |-> df.rows[i].label,
             dot_number |-> df.rows[i].dot_number,
             composite_score |-> composite[df.rows[i].label],
             lead_tier |-> LeadTier(composite[df.rows[i].label])]]

(***************************************************************************)
(* The inputs of the model.                                                *)
(***************************************************************************)
MaxRows == 2
MaxEnrich == 2
MaxLi == 1

CensusCols ==
    {"dot_number", "fleet_size", "entity_type", "carrier_operation", "email", "phone",
     "phy_city", "phy_state", "phy_zip", "cargo_carried", "add_date"}
SmsCols ==
    {"dot_number", "power_units", "drivers", "vmt", "safety_rating", "total_inspections", "basics"}

CensusRow(dot, fleet, entity, op) ==
    [dot_number |-> dot, fleet_size |-> fleet, entity_type |-> entity, carrier_operation |-> op,
     email |-> Num("a@b.com"), phone |-> Num("555-123-4567"),
     phy_city |-> Num("Austin"), phy_state |-> Num("TX"), phy_zip |-> NaN,
     cargo_carried |-> Num("hazmat reefer"), add_date |-> Num(400)]

CensusRowSamples ==
    {CensusRow(1, Num(0), NaN, NaN),
     CensusRow(2, Num(15), Num("CARRIER"), NaN),
     CensusRow(2, Num(60), Num("Broker"), Num("carrier"))}

SmsRowSamples ==
    {[dot_number |-> 1, power_units |-> Num(4), drivers |-> Num(2), vmt |-> Num(400000),
      safety_rating |-> Num("Unsatisfactory"), total_inspections |-> Num(60),
      basics |-> <<Num(4), Num(4), Num(4), Num(4), Num(4), Num(4)>>],
     [dot_number |-> 1, power_units |-> NaN, drivers |-> NaN, vmt |-> Unparsable,
      safety_rating |-> Num("Conditional"), total_inspections |-> NaN,
      basics |-> <<NaN, NaN, NaN, NaN, NaN, NaN>>]}

LiRowSamples ==
    {[dot_number |-> 1, authority_status |-> Num("ACTIVE"), bond_status |-> Num("Active"),
      bond_amount |-> Num(75000)],
     [dot_number |-> 1, authority_status |-> Num("REVOKED"), bond_status |-> NaN,
      bond_amount |-> Num(10000)]}

SeqsUpTo(S, lo, hi) == UNION {[1..n -> S] : n \in lo..hi}
\* Row labels are off, off+1, ...: 0.. for a freshly read table, other labels for a
\* table that was filtered or re-indexed by the caller.
WithLabels(rows, off) == [i \in 1..Len(rows) |-> rows[i] @@ ("label" :> (off + i - 1))]
IndexOffsets == {0, 1}

CensusInputs ==
    {Frame(cols, WithLabels(rows, off)) :
        rows \in SeqsUpTo(CensusRowSamples, 1, MaxRows),
        off \in IndexOffsets,
        cols \in {CensusCols, CensusCols \ {"fleet_size"}, CensusCols \ {"email"}}}
SmsInputs ==
    {None} \cup
    {Frame(cols, WithLabels(rows, 0)) :
        rows \in SeqsUpTo(SmsRowSamples, 0, MaxEnrich),
        cols \in {SmsCols, SmsCols \ {"dot_number"}, SmsCols \ {"vmt"}}}
LiInputs ==
    {None} \cup
    {Frame(cols, WithLabels(rows, 0)) :
        rows \in SeqsUpTo(LiRowSamples, 0, MaxLi),
        cols \in {LiCols, LiCols \ {"bond_amount"}}}

(***************************************************************************)
(* calculate_comprehensive_score, step by step                              *)
(***************************************************************************)
ScoreInit ==
    /\ census_df = None /\ sms_df = None /\ li_df = None
    /\ called_with = <<None, None, None>>
    /\ scored_df = None
    /\ component_scores = <<>>
    /\ pc = "idle"
    /\ result = NotYet

\* What an in-place write of the scores into the argument would leave.
FrameWrittenInPlace(df) == [df EXCEPT !.cols = @ \cup {"composite_score"}]
\* What a component computation leaves in a table it was handed.  The code only
\* reads its arguments: column selection, merge, to_numeric and fillna each build
\* a new object.
FrameAfterRead(df) == df

\* Line 58: scored_df = census_df.copy()
Call(c, s, l) ==
    /\ pc = "idle"
    /\ census_df' = c /\ sms_df' = s /\ li_df' = l
    /\ called_with' = <<c, s, l>>
    /\ scored_df' = c
    /\ pc' = "growth"
    /\ UNCHANGED <<component_scores, result>>

\* One entry of the dictionary built by _calculate_all_components.
ComponentStep(here, next, name, r) ==
    /\ pc = here
    /\ IF r.ok
       THEN /\ component_scores' = component_scores @@ (name :> r.val)
            /\ pc' = next
            /\ UNCHANGED result
       ELSE /\ result' = Raised(r.exc)
            /\ pc' = "done"
            /\ UNCHANGED component_scores
    /\ census_df' = census_df
    /\ scored_df' = FrameAfterRead(scored_df)
    /\ sms_df' = FrameAfterRead(sms_df)
    /\ li_df' = FrameAfterRead(li_df)
    /\ UNCHANGED called_with

GrowthStep ==
    ComponentStep("growth", "legitimacy", "growth_potential",
                  _calculate_growth_score(scored_df, sms_df))
LegitimacyStep ==
    ComponentStep("legitimacy", "safety", "legitimacy",
                  _calculate_legitimacy_score(scored_df, li_df))
SafetyStep ==
    ComponentStep("safety", "rest", "safety_compliance",
                  _calculate_safety_score(scored_df, sms_df))

\* The last three components, then lines 63-80: composite score, tier, sort, return.
RestStep ==
    /\ pc = "rest"
    /\ pc' = "done"
    /\ LET contact == _calculate_contact_score(scored_df)
           special == _calculate_specialization_score(scored_df)
           recency == _calculate_recency_score(scored_df)
       IN  IF ~(contact.ok /\ special.ok /\ recency.ok)
           THEN /\ result' = Raised(IF ~contact.ok THEN contact.exc
                                    ELSE IF ~special.ok THEN special.exc ELSE recency.exc)
                /\ UNCHANGED <<component_scores, scored_df>>
           ELSE LET all == component_scores @@ ("contact_quality" :> contact.val)
                               @@ ("specialization_value" :> special.val)
                               @@ ("company_recency" :> recency.val)
                IN  /\ component_scores' = all
                    /\ \E sorted \in sort_values(ScoredRows(scored_df, all)) :
                           /\ result' = Ok(sorted)
                           /\ scored_df' = [scored_df EXCEPT
                                               !.cols = @ \cup {"composite_score", "lead_tier"}]
    /\ UNCHANGED <<census_df, sms_df, li_df, called_with>>

CallAny == pc = "idle" /\ \E c \in CensusInputs, s \in SmsInputs, l \in LiInputs : Call(c, s, l)

(***************************************************************************)
(* The pure parts of lines 63-80, applied to drawn inputs.                 *)
(***************************************************************************)
MaxSortRows == 3

\* The values each component can take (tenths), null included for the components
\* that join an enrichment table.
GrowthValues == {NaN} \cup {Num(Pts(k)) : k \in 0..5}
LegitimacyValues == {Num(Pts(k)) : k \in 0..5}
SafetyValues == {NaN} \cup {Num(Pts(k) \div 2) : k \in 6..10}
ContactValues == {Num(Pts(k) \div 2) : k \in 0..10}
SpecializationValues == {Num(Pts(k) \div 2) : k \in 2..10}
RecencyValues == {Num(Pts(k)) : k \in 1..5}

\* Component series of a one-row table whose row label is 0.
OneRow(c) == (0 :> c)
ApplyComposite ==
    /\ fn_pc = "idle"
    /\ \E g \in GrowthValues, lg \in LegitimacyValues, sf \in SafetyValues,
          ct \in ContactValues, sp \in SpecializationValues, rc \in RecencyValues :
          LET components ==
                  [growth_potential |-> OneRow(g), legitimacy |-> OneRow(lg),
                   safety_compliance |-> OneRow(sf), contact_quality |-> OneRow(ct),
                   specialization_value |-> OneRow(sp), company_recency |-> OneRow(rc)]
          IN  /\ fn_in' = components
              /\ fn_out' = CompositeScore(components, {0})
    /\ fn_pc' = "composite"

CompositeRange == 0..5500
ApplyTier ==
    /\ fn_pc = "idle"
    /\ \E c \in {NaN} \cup {Num(v) : v \in CompositeRange} :
          /\ fn_in' = c
          /\ fn_out' = LeadTier(c)
    /\ fn_pc' = "tier"

SortScores == {NaN, Num(2000), Num(3300), Num(3500)}
SortInputs ==
    {[i \in 1..Len(scores) |->
         [label |-> i - 1, dot_number |-> i, composite_score |-> scores[i],
          lead_tier |-> LeadTier(scores[i])]] :
        scores \in SeqsUpTo(SortScores, 1, MaxSortRows)}
ApplySort ==
    /\ fn_pc = "idle"
    /\ \E rows \in SortInputs :
          /\ fn_in' = rows
          /\ \E sorted \in sort_values(rows) : fn_out' = sorted
    /\ fn_pc' = "sort"

(***************************************************************************)
(* _calculate_growth_score without enrichment, on tables of drawn fleet    *)
(* sizes, and the ranking the composite score gives when the rows differ   *)
(* in growth only.                                                         *)
(***************************************************************************)
MaxGrowthRows == 3
GrowthInputs ==
    LET FleetSizes == {0, 1, 2, 5, 6, 10, 11, 15, 20, 21, 50, 51, 60}
        FleetCells == {NaN, Unparsable} \cup {Num(v) : v \in FleetSizes}
        \* the first row takes every cell, the rows after it the sizes 0, 15 and 60
    IN  {Frame(CensusCols,
               WithLabels([i \in 1..(Len(rest) + 1) |->
                              CensusRow(i, IF i = 1 THEN first ELSE rest[i - 1], NaN, NaN)], 0)) :
            first \in FleetCells,
            rest \in SeqsUpTo({Num(0), Num(15), Num(60)}, 0, MaxGrowthRows - 1)}
\* The components of a table scored without enrichment, contact quality being
\* the same for every row.
ComponentsWithoutEnrichment(df) ==
    [growth_potential |-> _calculate_growth_score(df, None).val,
     legitimacy |-> _calculate_legitimacy_score(df, None).val,
     safety_compliance |-> _calculate_safety_score(df, None).val,
     contact_quality |-> [l \in Labels(df) |-> Num(Pts(3))],
     specialization_value |-> _calculate_specialization_score(df).val,
     company_recency |-> _calculate_recency_score(df).val]
ApplyGrowth ==
    /\ fn_pc = "idle"
    /\ \E df \in GrowthInputs :
          /\ fn_in' = df
          /\ \E sorted \in sort_values(ScoredRows(df, ComponentsWithoutEnrichment(df))) :
                fn_out' = [growth |-> _calculate_growth_score(df, None), ranked |-> sorted]
    /\ fn_pc' = "growth"

(***************************************************************************)
(* _calculate_legitimacy_score on one census row and at most one licensing *)
(* row for it.                                                             *)
(***************************************************************************)
LegitimacyInputs ==
    LET census == {Frame(CensusCols, WithLabels(<<CensusRow(1, Num(15), e, o)>>, 0)) :
                      e \in {NaN, Num("CARRIER"), Num("Broker")}, o \in {NaN, Num("carrier")}}
        licensing ==
            {None} \cup
            {Frame(LiCols, WithLabels(<<[dot_number |-> 1, authority_status |-> a,
                                         bond_status |-> b, bond_amount |-> m]>>, 0)) :
                a \in {NaN, Num("ACTIVE"), Num("INACTIVE"), Num("REVOKED"), Num("SUSPENDED")},
                b \in {NaN, Num("Active"), Num("Valid")},
                m \in {NaN, Num(10000), Num(75000)}}
    IN  census \X licensing
ApplyLegitimacy ==
    /\ fn_pc = "idle"
    /\ \E in \in LegitimacyInputs :
          /\ fn_in' = in
          /\ fn_out' = _calculate_legitimacy_score(in[1], in[2])
    /\ fn_pc' = "legitimacy"

(***************************************************************************)
(* app.py: ArbitrageDetector and ArbitrageFinder.                          *)
(* A ticker is the sequence of its parts between hyphens, a title the      *)
(* sequence of its words.  Correlation scores and confidences are held in  *)
(* 120ths (0.6 is 72, 0.9 is 108), prices in hundredths, profits in units.  *)
(***************************************************************************)
MaxMarkets == 3
MaxPairs == 2
MaxOpportunities == 2

\* MarketData, with the position of the market in the API's answer.
Market(id, ticker, title, category, tags, last_price, volume_24h) ==
    [id |-> id, ticker |-> ticker, title |-> title, category |-> category, tags |-> tags,
     last_price |-> last_price, volume_24h |-> volume_24h]

\* market.ticker.split('-')[0] if '-' in market.ticker else market.category
Series(m) == IF Len(m.ticker) > 1 THEN m.ticker[1] ELSE m.category
\* set(title.lower().split())
TitleWords(m) == {LowerCase(m.title[i]) : i \in 1..Len(m.title)}
\* (overlap / total) * weight, added only when the union is not empty
JaccardPart(a, b, weight) ==
    IF a \cup b # {} THEN (weight * Cardinality(a \cap b)) \div Cardinality(a \cup b) ELSE 0

\* A score that leaves the series out.
CorrelationWithoutSeries(m1, m2) ==
    LET score == JaccardPart(m1.tags, m2.tags, 36)
                 + JaccardPart(TitleWords(m1), TitleWords(m2), 48)
                 + (IF m1.category = m2.category THEN 24 ELSE 0)
    IN  IF score < 120 THEN score ELSE 120
_calculate_correlation_score(m1, m2) ==
    LET score == JaccardPart(m1.tags, m2.tags, 36)
                 + JaccardPart(TitleWords(m1), TitleWords(m2), 48)
                 + (IF m1.category = m2.category THEN 24 ELSE 0)
                 + (IF Series(m1) = Series(m2) THEN 12 ELSE 0)
    IN  IF score < 120 THEN score ELSE 120

\* Two markets drawn field by field.
CorrelationInputs ==
    LET markets ==
            {Market(0, tk, ti, ca, tg, 40, 1000) :
                tk \in {<<"PRES", "A">>, <<"politics", "X">>, <<"SEN">>},
                ti \in {<<>>, <<"Trump", "wins">>, <<"trump", "wins">>, <<"trump", "loses">>},
                ca \in {"politics", "sports"},
                tg \in SUBSET {"election", "senate"}}
    IN  markets \X markets
ApplyCorrelation ==
    /\ fn_pc = "idle"
    /\ \E in \in CorrelationInputs :
          /\ fn_in' = in
          /\ fn_out' = <<_calculate_correlation_score(in[1], in[2]),
                         _calculate_correlation_score(in[2], in[1])>>
    /\ fn_pc' = "correlation"

\* Line 64, with a non-empty tag list: some tag, lower-cased, occurs in the joined
\* lower-cased tags, title and category.  On the model's vocabulary a tag occurs
\* in the joined text exactly when it is one of its words.
KeptByTags(m, tags) ==
    \/ tags = <<>>
    \/ \E i \in 1..Len(tags) :
          LowerCase(tags[i]) \in {LowerCase(t) : t \in m.tags} \cup TitleWords(m)
                                    \cup {LowerCase(m.category)}

\* A comparison that leaves out the pairs scoring exactly the threshold.
AboveThreshold(score, threshold) == score > threshold
\* Line 77: score >= min_correlation_threshold
MeetsThreshold(score, threshold) == score >= threshold

\* Lines 66-77.  The groups are visited in the order in which their series first
\* occur, the pairs of a group in the order of the list; step k stands for the
\* triple (group leader g, i, j).
RECURSIVE CorrelatedFrom(_, _, _)
CorrelatedFrom(kept, threshold, k) ==
    LET n == Len(kept)
        g == k \div (n * n) + 1
        i == ((k \div n) % n) + 1
        j == (k % n) + 1
        leads == \A h \in 1..(g - 1) : Series(kept[h]) # Series(kept[g])
        score == _calculate_correlation_score(kept[i], kept[j])
        here == IF /\ leads /\ i < j
                   /\ Series(kept[i]) = Series(kept[g]) /\ Series(kept[j]) = Series(kept[g])
                   /\ MeetsThreshold(score, threshold)
                THEN <<<<kept[i], kept[j], score>>>>
                ELSE <<>>
    IN  IF k >= n * n * n THEN <<>> ELSE here \o CorrelatedFrom(kept, threshold, k + 1)

find_correlated_markets(markets, tags, threshold) ==
    CorrelatedFrom(SelectSeq(markets, LAMBDA m : KeptByTags(m, tags)), threshold, 0)

MarketSamples ==
    {Market(0, <<"PRES", "A">>, <<"Trump", "wins">>, "politics", {"election"}, 40, 1000),
     Market(0, <<"PRES", "B">>, <<"trump", "wins">>, "politics", {}, 45, 1000),
     Market(0, <<"PRES", "C">>, <<"trump", "loses">>, "politics", {"election"}, 50, 30000),
     Market(0, <<"SEN">>, <<"trump", "wins">>, "politics", {"election", "senate"}, 45, 30000),
     Market(0, <<"politics", "X">>, <<"trump", "wins">>, "sports", {"election", "senate"}, 50, 500)}
FindCorrelated ==
    /\ fn_pc = "idle"
    /\ \E sample \in SeqsUpTo(MarketSamples, 0, MaxMarkets),
          tags \in {<<>>, <<"vote", "Election">>},
          threshold \in {72, 84, 90} :
          LET markets == [i \in 1..Len(sample) |-> [sample[i] EXCEPT !.id = i]]
          IN  /\ fn_in' = [markets |-> markets, tags |-> tags, threshold |-> threshold]
              /\ fn_out' = [pairs |-> find_correlated_markets(markets, tags, threshold)]
    /\ fn_pc' = "correlated"

\* A test that also records a pair whose prices sum to exactly 0.95.
RecordsAtMost(price1, price2) == price1 + price2 <= 95
\* Line 102: price1 + price2 < 0.95
RecordsOpportunity(price1, price2) == price1 + price2 < 95

\* The same record with the confidence scaled by 0.9 instead of capped at 0.9.
OpportunityScaled(m1, m2, correlation_score) ==
    [description |-> <<"Arbitrage between", m1.title, m2.title>>,
     markets |-> <<m1, m2>>,
     potential_profit |-> 100 - (m1.last_price + m2.last_price),
     risk_level |-> IF m1.volume_24h + m2.volume_24h > 2 * 10000 THEN "Low"
                    ELSE IF m1.volume_24h + m2.volume_24h > 2 * 1000 THEN "Medium"
                    ELSE "High",
     confidence_score |-> (9 * correlation_score) \div 10]
\* The same record with the volume limits taken inclusively.
OpportunityRiskInclusive(m1, m2, correlation_score) ==
    [description |-> <<"Arbitrage between", m1.title, m2.title>>,
     markets |-> <<m1, m2>>,
     potential_profit |-> 100 - (m1.last_price + m2.last_price),
     risk_level |-> IF m1.volume_24h + m2.volume_24h >= 2 * 10000 THEN "Low"
                    ELSE IF m1.volume_24h + m2.volume_24h >= 2 * 1000 THEN "Medium"
                    ELSE "High",
     confidence_score |-> IF correlation_score < 108 THEN correlation_score ELSE 108]
\* Lines 103-106: profit, risk from the average 24h volume, confidence.
Opportunity(m1, m2, correlation_score) ==
    [description |-> <<"Arbitrage between", m1.title, m2.title>>,
     markets |-> <<m1, m2>>,
     potential_profit |-> 100 - (m1.last_price + m2.last_price),
     risk_level |-> IF m1.volume_24h + m2.volume_24h > 2 * 10000 THEN "Low"
                    ELSE IF m1.volume_24h + m2.volume_24h > 2 * 1000 THEN "Medium"
                    ELSE "High",
     confidence_score |-> IF correlation_score < 108 THEN correlation_score ELSE 108]

\* Lines 99-107.  sorted(..., reverse=True) is stable: among equal profits the
\* order of recording is kept.
detect_arbitrage_opportunities(correlated_pairs) ==
    LET recorded == SelectSeq(correlated_pairs,
                              LAMBDA p : RecordsOpportunity(p[1].last_price, p[2].last_price))
        opportunities == [k \in 1..Len(recorded) |->
                             Opportunity(recorded[k][1], recorded[k][2], recorded[k][3])]
        n == Len(opportunities)
        rank(i) == 1 + Cardinality({j \in 1..n :
                        \/ opportunities[j].potential_profit > opportunities[i].potential_profit
                        \/ /\ opportunities[j].potential_profit = opportunities[i].potential_profit
                           /\ j < i})
    IN  [k \in 1..n |-> opportunities[CHOOSE i \in 1..n : rank(i) = k]]

\* The last max_opportunities elements instead of the first.
LastOpportunities(opportunities, max_opportunities) ==
    SubSeq(opportunities,
           IF max_opportunities < Len(opportunities)
           THEN Len(opportunities) - max_opportunities + 1 ELSE 1,
           Len(opportunities))
\* Line 120: opportunities[:max_opportunities], for max_opportunities >= 0
FirstOpportunities(opportunities, max_opportunities) ==
    SubSeq(opportunities, 1,
           IF max_opportunities < Len(opportunities) THEN max_opportunities
           ELSE Len(opportunities))

\* detect_arbitrage_opportunities, on the pairs find_correlated_markets returned
\* (line 119) or on pairs handed to it directly.
Detect ==
    /\ fn_pc \in {"idle", "correlated"}
    /\ \E pairs \in
          IF fn_pc = "correlated" THEN {fn_out.pairs}
          ELSE SeqsUpTo({<<Market(1, <<"PRES", "A">>, <<"Trump", "wins">>, "politics", {}, p1, v[1]),
                           Market(2, <<"PRES", "B">>, <<"trump", "wins">>, "politics", {}, p2, v[2]),
                           score>> :
                            p1 \in {40, 45}, p2 \in {45, 50, 54},
                            v \in {<<1000, 1000>>, <<1000, 1002>>, <<10000, 10000>>,
                                   <<10000, 10002>>},
                            score \in {84, 120}},
                        0, MaxPairs) :
          /\ fn_in' = [pairs |-> pairs]
          /\ fn_out' = [pairs |-> pairs,
                        opportunities |-> detect_arbitrage_opportunities(pairs)]
    /\ fn_pc' = "detected"

\* find_opportunities, line 120.
Truncate ==
    /\ fn_pc = "detected"
    /\ \E max_opportunities \in 0..MaxOpportunities :
          fn_out' = [pairs |-> fn_out.pairs,
                     opportunities |-> fn_out.opportunities,
                     max_opportunities |-> max_opportunities,
                     returned |-> FirstOpportunities(fn_out.opportunities, max_opportunities)]
    /\ fn_pc' = "returned"
    /\ UNCHANGED fn_in

(***************************************************************************)
(* FMCSACensusParser filters (parsers.py) and FMCALeadGenerator            *)
(* .filter_carriers (leads.py).  Each parser filter parses the census file *)
(* anew; df stands for the table parse_to_dataframe returns.               *)
(***************************************************************************)
MaxFilterRows == 2

\* str.upper, tabulated on the model's state codes.
UpperCase(s) ==
    CASE s = "tx" -> "TX"
      [] s = "Tx" -> "TX"
      [] s = "ca" -> "CA"
      [] OTHER -> s

\* df[df['phy_state'].str.upper() == state_code.upper()]
filter_by_state(df, state_code) ==
    SelectSeq(df.rows, LAMBDA r : ~IsNaN(r.phy_state)
                                  /\ UpperCase(r.phy_state[1]) = UpperCase(state_code))
\* A comparison with the codes as requested, not upper-cased.
filter_by_region_as_given(df, states) ==
    SelectSeq(df.rows, LAMBDA r : ~IsNaN(r.phy_state)
                                  /\ UpperCase(r.phy_state[1]) \in {states[i] : i \in 1..Len(states)})
\* df[df['phy_state'].str.upper().isin([s.upper() for s in states])]
filter_by_region(df, states) ==
    SelectSeq(df.rows, LAMBDA r : ~IsNaN(r.phy_state)
                                  /\ UpperCase(r.phy_state[1]) \in {UpperCase(states[i]) : i \in 1..Len(states)})

\* pd.to_numeric(fleet_size, errors='coerce').fillna(0) >= min_size; the column of
\* the table returned holds the converted numbers.
filter_by_fleet_size(df, min_size) ==
    SelectSeq([i \in 1..Len(df.rows) |->
                  [df.rows[i] EXCEPT !.fleet_size = Num(NumericOr(@, 0))]],
              LAMBDA r : r.fleet_size[1] >= min_size)

\* Lines 274-289: a row is kept when one of the candidate columns that exist
\* contains one of the requested types, case-insensitively.
filter_equipment_types(df, equipment_types) ==
    SelectSeq(df.rows,
              LAMBDA r : \E col \in {"cargo_type", "equipment_type", "commodity_type",
                                      "vehicle_type"} \cap df.cols :
                            \E i \in 1..Len(equipment_types) :
                                Contains(LowerOrEmpty(r[col]), {LowerCase(equipment_types[i])}))

\* FMCALeadGenerator.filter_carriers, lines 36-47: each assignment to carriers
\* replaces the previous table; the equipment filter starts from the file again.
lead_filter_carriers(df, states, equipment_types, min_fleet_size) ==
    LET by_fleet == filter_by_fleet_size(df, min_fleet_size)
        by_state == IF states # <<>>
                    THEN SelectSeq(by_fleet,
                                   LAMBDA r : ~IsNaN(r.phy_state)
                                              /\ UpperCase(r.phy_state[1]) \in {UpperCase(states[i]) : i \in 1..Len(states)})
                    ELSE by_fleet
    IN  IF equipment_types # <<>> THEN filter_equipment_types(df, equipment_types)
        ELSE by_state

\* The parsed census tables of the model: with and without a cargo_type column.
FilterInputs ==
    LET cols == {"dot_number", "phy_state", "fleet_size", "carrier_operation", "entity_type"}
        row(st, fl, cg) == [dot_number |-> 1, phy_state |-> st, fleet_size |-> fl,
                            carrier_operation |-> Num("carrier"), entity_type |-> Num("CARRIER"),
                            cargo_type |-> cg]
        samples == {row(Num("TX"), Num(10), Num("Reefer")), row(Num("tx"), Num(1), Num("Reefer")),
                    row(Num("CA"), Num(10), Num("Reefer")), row(Num("CA"), Num(1), NaN),
                    row(Num("TX"), Num(10), Num("Flatbed")), row(NaN, Unparsable, Num("Flatbed"))}
    IN  {Frame(c, WithLabels(rows, 0)) :
            rows \in SeqsUpTo(samples, 0, MaxFilterRows),
            c \in {cols, cols \cup {"cargo_type"}}}

\* filter_by_state (one code) or filter_by_region (a list of codes).
ApplyStateFilter ==
    /\ fn_pc = "idle"
    /\ \E df \in FilterInputs :
          \/ \E state_code \in {"TX", "tx", "ca", "NY"} :
                /\ fn_in' = [df |-> df, states |-> <<state_code>>]
                /\ fn_out' = filter_by_state(df, state_code)
          \/ \E states \in {<<>>, <<"tx", "CA">>, <<"Tx">>} :
                /\ fn_in' = [df |-> df, states |-> states]
                /\ fn_out' = filter_by_region(df, states)
    /\ fn_pc' = "state_filter"

ApplyLeadFilter ==
    /\ fn_pc = "idle"
    /\ \E df \in FilterInputs,
          states \in {<<>>, <<"tx">>, <<"TX", "ca">>},
          equipment_types \in {<<>>, <<"reefer">>},
          min_fleet_size \in {1, 10} :
          /\ fn_in' = [df |-> df, states |-> states, equipment_types |-> equipment_types,
                       min_fleet_size |-> min_fleet_size]
          /\ fn_out' = lead_filter_carriers(df, states, equipment_types, min_fleet_size)
    /\ fn_pc' = "lead_filter"

(***************************************************************************)
(* FMCSADataDownloader                                                     *)
(***************************************************************************)
\* The keys of FMCSA_ENDPOINTS, in the dictionary's order.
FMCSA_ENDPOINTS == <<"MCMIS_CENSUS", "SMS_BULK", "LI_PUBLIC", "INSPECTIONS">>
RegistryKeys == {FMCSA_ENDPOINTS[i] : i \in 1..Len(FMCSA_ENDPOINTS)}
\* The entry of LI_PUBLIC has a "search_url" and a "bulk_url" but no "url".
HasUrl(key) == key # "LI_PUBLIC"
max_retries == 3
\* What a transport attempt can raise.
TransportErrors == {"Timeout", "HTTPError"}

\* download_dataset, lines 68-72: before any attempt is made.
DatasetPrologue(key) ==
    IF key \notin RegistryKeys THEN Raised("ValueError")
    ELSE IF ~HasUrl(key) THEN Raised("KeyError")
    ELSE Ok(key)

\* for attempt in range(max_retries)
LoopContinues(a) == a < max_retries
\* Raising the first failure instead of the last one.
RaisedFirst(log, last) == log[1]
\* Line 149: raise last_exception
RaisedAfterLoop(log, last) == last
\* Leaving the loop at the first failure instead of continuing.
QueueDropped(queue) == <<>>
\* download_all_datasets, lines 106-108: except Exception: log, continue
QueueAfterFailure(queue) == queue
\* download_all_datasets, line 104: results[dataset_key] = <returned path>
ResultsAfterReturn(results, key) == results \cup {key}

EnterDataset(key) ==
    /\ dl_key' = key
    /\ dl_visited' = Append(dl_visited, key)
    /\ attempt' = 0
    /\ last_exception' = ""
    /\ attempt_log' = <<>>
    /\ LET pro == DatasetPrologue(key)
       IN  IF pro.ok THEN dl_pc' = "attempt" /\ dl_raised' = ""
           ELSE dl_pc' = "dataset_failed" /\ dl_raised' = pro.exc

StartAll ==
    /\ dl_pc = "idle"
    /\ dl_mode' = "all"
    /\ dl_queue' = FMCSA_ENDPOINTS
    /\ dl_pc' = "loop"
    /\ UNCHANGED <<dl_key, attempt, last_exception, attempt_log, dl_results, dl_visited,
                   dl_succeeded, dl_raised, dl_escaped>>

StartSingle ==
    /\ dl_pc = "idle"
    /\ dl_mode' = "single"
    /\ \E key \in RegistryKeys \cup {"UNKNOWN"} : EnterDataset(key)
    /\ UNCHANGED <<dl_queue, dl_results, dl_succeeded, dl_escaped>>

NextDataset ==
    /\ dl_pc = "loop"
    /\ dl_queue # <<>>
    /\ dl_queue' = Tail(dl_queue)
    /\ EnterDataset(Head(dl_queue))
    /\ UNCHANGED <<dl_mode, dl_results, dl_succeeded, dl_escaped>>

\* One pass of the retry loop: the request and the write succeed, or something raises.
Attempt ==
    /\ dl_pc = "attempt"
    /\ LoopContinues(attempt)
    /\ \E outcome \in {"ok"} \cup TransportErrors :
          /\ attempt_log' = Append(attempt_log, outcome)
          /\ IF outcome = "ok"
             THEN /\ dl_pc' = "dataset_ok"
                  /\ dl_succeeded' = dl_succeeded \cup {dl_key}
                  /\ UNCHANGED <<attempt, last_exception>>
             ELSE /\ last_exception' = outcome
                  /\ attempt' = attempt + 1
                  /\ UNCHANGED <<dl_pc, dl_succeeded>>
    /\ UNCHANGED <<dl_mode, dl_queue, dl_key, dl_results, dl_visited, dl_raised, dl_escaped>>

\* The loop is over without a return: line 149, then download_dataset logs and re-raises.
Exhausted ==
    /\ dl_pc = "attempt"
    /\ ~LoopContinues(attempt)
    /\ dl_raised' = RaisedAfterLoop(attempt_log, last_exception)
    /\ dl_pc' = "dataset_failed"
    /\ UNCHANGED <<dl_mode, dl_queue, dl_key, attempt, last_exception, attempt_log,
                   dl_results, dl_visited, dl_succeeded, dl_escaped>>

StoreResult ==
    /\ dl_pc = "dataset_ok" /\ dl_mode = "all"
    /\ dl_results' = ResultsAfterReturn(dl_results, dl_key)
    /\ dl_pc' = "loop"
    /\ UNCHANGED <<dl_mode, dl_queue, dl_key, attempt, last_exception, attempt_log,
                   dl_visited, dl_succeeded, dl_raised, dl_escaped>>

CatchAndContinue ==
    /\ dl_pc = "dataset_failed" /\ dl_mode = "all"
    /\ dl_queue' = QueueAfterFailure(dl_queue)
    /\ dl_pc' = "loop"
    /\ UNCHANGED <<dl_mode, dl_key, attempt, last_exception, attempt_log, dl_results,
                   dl_visited, dl_succeeded, dl_raised, dl_escaped>>

ReturnAll ==
    /\ dl_pc = "loop" /\ dl_queue = <<>>
    /\ dl_pc' = "returned"
    /\ UNCHANGED <<dl_mode, dl_queue, dl_key, attempt, last_exception, attempt_log,
                   dl_results, dl_visited, dl_succeeded, dl_raised, dl_escaped>>

ReturnSingle ==
    /\ dl_pc = "dataset_ok" /\ dl_mode = "single"
    /\ dl_pc' = "returned"
    /\ UNCHANGED <<dl_mode, dl_queue, dl_key, attempt, last_exception, attempt_log,
                   dl_results, dl_visited, dl_succeeded, dl_raised, dl_escaped>>

PropagateSingle ==
    /\ dl_pc = "dataset_failed" /\ dl_mode = "single"
    /\ dl_escaped' = dl_raised
    /\ dl_pc' = "raised"
    /\ UNCHANGED <<dl_mode, dl_queue, dl_key, attempt, last_exception, attempt_log,
                   dl_results, dl_visited, dl_succeeded, dl_raised>>

(***************************************************************************)
(* validate_carrier_data (utils.py).  A text is a sequence of characters,  *)
(* so that the DOT-number pattern is evaluated and not tabulated.          *)
(***************************************************************************)
MaxValidateRows == 2
MaxPadRows == 10

\* Lines 42-57 after .astype(str) of line 93: a null cell reads "nan"; an empty
\* text is not a DOT number; otherwise the stripped text must match ^\d{1,8}$.
validate_dot_number(cell) ==
    LET RECURSIVE lstrip(_)
        lstrip(t) == IF t # <<>> /\ Head(t) = " " THEN lstrip(Tail(t)) ELSE t
        RECURSIVE rstrip(_)
        rstrip(t) == IF t # <<>> /\ t[Len(t)] = " " THEN rstrip(SubSeq(t, 1, Len(t) - 1)) ELSE t
        text == IF IsNaN(cell) THEN <<"n", "a", "n">> ELSE cell[1]
        stripped == rstrip(lstrip(text))
    IN  /\ text # <<>>
        /\ Len(stripped) \in 1..8
        /\ \A i \in 1..Len(stripped) :
              stripped[i] \in {"0", "1", "2", "3", "4", "5", "6", "7", "8", "9"}

\* Lines 60-123.  _validate_data_types (126-148) converts with errors='coerce'
\* and reports nothing.  The value is the results dictionary, or ValidationError
\* when results["errors"] is not empty (lines 120-121).
validate_carrier_data(df, required_fields) ==
    LET n == Len(df.rows)
        missing_fields == SelectSeq(required_fields, LAMBDA f : f \notin df.cols)
        invalid_count == Cardinality({i \in 1..n : ~validate_dot_number(df.rows[i].dot_number)})
        duplicates == Cardinality({i \in 1..n : \E j \in 1..(i - 1) :
                                      df.rows[j].dot_number = df.rows[i].dot_number})
        nulls(c) == Cardinality({i \in 1..n : IsNaN(df.rows[i][c])})
        \* nulls / len * 100 > 50; 0 / 0 is NaN, which is not above 50
        high_null_fields == {c \in df.cols : n > 0 /\ nulls(c) * 100 > 50 * n}
        has_dot == "dot_number" \in df.cols
        errors ==
            (IF missing_fields # <<>> THEN <<[error |-> "missing", fields |-> missing_fields]>>
             ELSE <<>>)
            \o (IF has_dot /\ invalid_count * 10 > n
                THEN <<[error |-> "too many invalid", count |-> invalid_count]>> ELSE <<>>)
        warnings ==
            (IF has_dot /\ invalid_count > 0
             THEN <<[warning |-> "invalid", count |-> invalid_count]>> ELSE <<>>)
            \o (IF has_dot /\ duplicates > 0
                THEN <<[warning |-> "duplicate", count |-> duplicates]>> ELSE <<>>)
            \o (IF high_null_fields # {}
                THEN <<[warning |-> "null", fields |-> high_null_fields]>> ELSE <<>>)
    IN  IF errors # <<>> THEN Raised("ValidationError")
        ELSE Ok([valid |-> TRUE, errors |-> <<>>, warnings |-> warnings,
                 stats |-> [total_rows |-> n, total_columns |-> Cardinality(df.cols)]])

\* Tables for validation: MaxPadRows rows with distinct valid DOT numbers or
\* none, followed by up to MaxValidateRows drawn rows.
ValidateInputs ==
    LET digit == <<"0", "1", "2", "3", "4", "5", "6", "7", "8", "9">>
        row(dot, name) == [dot_number |-> dot, carrier_name |-> name]
        pad(k) == [i \in 1..k |->
                      row(Num(<<digit[(i \div 10) + 1], digit[(i % 10) + 1]>>), Num("ACME"))]
        dots == {Num(<<"1", "2", "3">>), Num(<<" ", "4", "2", " ">>),
                 Num(<<"1", "2", "3", "4", "5", "6", "7", "8", "9">>),
                 Num(<<"1", "2", "A">>), Num(<<>>), NaN}
    IN  {Frame(c, WithLabels(pad(k) \o tail, 0)) :
            k \in {0, MaxPadRows},
            tail \in SeqsUpTo({row(d, nm) : d \in dots, nm \in {Num("ACME"), NaN}},
                              0, MaxValidateRows),
            c \in {{"dot_number", "carrier_name"}, {"carrier_name"}}}

ApplyValidate ==
    /\ fn_pc = "idle"
    /\ \E df \in ValidateInputs,
          required_fields \in {<<>>, <<"dot_number">>, <<"dot_number", "mc_number">>} :
          /\ fn_in' = [df |-> df, required_fields |-> required_fields]
          /\ fn_out' = validate_carrier_data(df, required_fields)
    /\ fn_pc' = "validate"

(***************************************************************************)
(* main (main.py): the command line of the bulk processor.  One action per *)
(* phase; cli_log records every call main makes, in order.                 *)
(***************************************************************************)
\* argparse, lines 345-356: every combination of the action flags; census_file
\* is the --census-file option of the scoring phase.
CliArgs ==
    [download_all : BOOLEAN, process_census : BOOLEAN, process_safety : BOOLEAN,
     process_inspections : BOOLEAN, merge_all : BOOLEAN, score_leads : BOOLEAN,
     census_file : BOOLEAN]

\* Lines 358-381: without an action flag main prints the usage and returns.
MainStart ==
    /\ cli_pc = "idle"
    /\ \E a \in CliArgs :
          LET actions_requested ==
                  a.download_all \/ a.process_census \/ a.process_safety
                  \/ a.process_inspections \/ a.merge_all \/ a.score_leads
          IN  /\ args' = a
              /\ cli_log' = IF actions_requested THEN <<>> ELSE <<"print_help">>
              /\ cli_pc' = IF actions_requested THEN "download" ELSE "returned"
    /\ UNCHANGED <<downloaded_files, datasets, cli_queue>>

\* Lines 383-385.  download_all_datasets returns the datasets whose download
\* succeeded, in the registry's order; a dataset without "url" never succeeds.
DownloadPhase ==
    /\ cli_pc = "download"
    /\ IF args.download_all
       THEN /\ \E got \in SUBSET {k \in RegistryKeys : HasUrl(k)} :
                  downloaded_files' = SelectSeq(FMCSA_ENDPOINTS, LAMBDA k : k \in got)
            /\ cli_log' = Append(cli_log, "download_all_datasets")
       ELSE UNCHANGED <<downloaded_files, cli_log>>
    /\ cli_pc' = "process_census"
    /\ UNCHANGED <<args, datasets, cli_queue>>

\* Lines 387-398: the three explicit processing steps, in this order.  A
\* processing error is re-raised by the processor and leaves main (449-451).
ExplicitProcessing ==
    /\ cli_pc \in {"process_census", "process_safety", "process_inspections"}
    /\ LET name == CASE cli_pc = "process_census" -> "census"
                     [] cli_pc = "process_safety" -> "safety"
                     [] OTHER -> "inspections"
           next == CASE cli_pc = "process_census" -> "process_safety"
                     [] cli_pc = "process_safety" -> "process_inspections"
                     [] OTHER -> "auto"
       IN  IF args[cli_pc]
           THEN \E raised \in BOOLEAN :
                   /\ cli_log' = Append(cli_log, cli_pc)
                   /\ datasets' = IF raised THEN datasets ELSE datasets \cup {name}
                   /\ cli_pc' = IF raised THEN "raised" ELSE next
           ELSE /\ cli_pc' = next
                /\ UNCHANGED <<datasets, cli_log>>
    /\ cli_queue' = IF cli_pc' = "auto" THEN downloaded_files ELSE cli_queue
    /\ UNCHANGED <<args, downloaded_files>>

\* Lines 400-411: one iteration of the loop over downloaded_files; an error is
\* logged and the loop goes on.
AutoProcess ==
    /\ cli_pc = "auto"
    /\ cli_queue # <<>>
    /\ LET dataset_key == Head(cli_queue)
           name == CASE dataset_key = "MCMIS_CENSUS" -> "census"
                     [] dataset_key = "SMS_BULK" -> "safety"
                     [] dataset_key = "INSPECTIONS" -> "inspections"
                     [] OTHER -> ""
       IN  IF name = "" THEN UNCHANGED <<datasets, cli_log>>
           ELSE \E raised \in BOOLEAN :
                   /\ cli_log' = Append(cli_log, IF raised THEN "auto_failed_" \o name
                                                 ELSE "auto_process_" \o name)
                   /\ datasets' = IF raised THEN datasets ELSE datasets \cup {name}
    /\ cli_queue' = Tail(cli_queue)
    /\ UNCHANGED <<cli_pc, args, downloaded_files>>

\* Lines 413-416.  merge_datasets raises ValueError without census data (main.py
\* 198-199) and re-raises whatever a merge raises.
MergePhase ==
    /\ cli_pc = "auto"
    /\ cli_queue = <<>>
    /\ IF args.merge_all /\ Cardinality(datasets) > 1
       THEN \E raised \in (IF "census" \in datasets THEN BOOLEAN ELSE {TRUE}) :
               /\ cli_log' = Append(cli_log, "merge_datasets")
               /\ cli_pc' = IF raised THEN "raised" ELSE "score"
       ELSE /\ cli_pc' = "score"
            /\ UNCHANGED cli_log
    /\ UNCHANGED <<args, downloaded_files, datasets, cli_queue>>

\* Lines 418-451.  score_leads_template reads the census file and calls
\* calculate_comprehensive_score, which raises on every table (the contact
\* score, lead_scoring.py line 213); the error leaves main.
ScorePhase ==
    /\ cli_pc = "score"
    /\ LET has_census_path ==
               args.census_file
               \/ \E i \in 1..Len(downloaded_files) : downloaded_files[i] = "MCMIS_CENSUS"
       IN  IF ~args.score_leads
           THEN cli_pc' = "returned" /\ UNCHANGED cli_log
           ELSE IF ~has_census_path
           THEN cli_pc' = "returned" /\ cli_log' = Append(cli_log, "census_file_required")
           ELSE cli_pc' = "raised" /\ cli_log' = Append(cli_log, "score_leads_template")
    /\ UNCHANGED <<args, downloaded_files, datasets, cli_queue>>

CliInit ==
    /\ cli_pc = "idle" /\ args = <<>> /\ downloaded_files = <<>> /\ datasets = {}
    /\ cli_queue = <<>> /\ cli_log = <<>>

(***************************************************************************)
(* download_dataset and _download_with_retry (api.py) at the level of the  *)
(* file system: two runs of the downloader, each with its own file handle, *)
(* write to the files of one directory.  A file is the sequence of its     *)
(* chunks; chunk <<r, k, i>> is the i-th chunk of the response run r       *)
(* received at attempt k; Hole fills the gap a write past the end leaves.  *)
(* Which exception ends a failed run is the matter of Exhausted above.     *)
(***************************************************************************)
MaxChunks == 2
retry_delay == 5
Runs == {1, 2}
Hole == <<0, 0, 0>>

\* Lines 140-147: after a failed attempt that is not the last one the run
\* sleeps retry_delay * 2^attempt and the loop goes on; after the last one the
\* loop ends and line 149 raises.
EveryFailureSleeps(r) ==
    /\ w_waits' = [w_waits EXCEPT ![r] = Append(@, retry_delay * 2^w_attempt[r])]
    /\ IF w_attempt[r] < max_retries - 1
       THEN /\ w_attempt' = [w_attempt EXCEPT ![r] = @ + 1]
            /\ w_pc' = [w_pc EXCEPT ![r] = "get"]
       ELSE /\ w_pc' = [w_pc EXCEPT ![r] = "raised"]
            /\ UNCHANGED w_attempt
AttemptFailed(r) ==
    IF w_attempt[r] < max_retries - 1
    THEN /\ w_waits' = [w_waits EXCEPT ![r] = Append(@, retry_delay * 2^w_attempt[r])]
         /\ w_attempt' = [w_attempt EXCEPT ![r] = @ + 1]
         /\ w_pc' = [w_pc EXCEPT ![r] = "get"]
    ELSE /\ w_pc' = [w_pc EXCEPT ![r] = "raised"]
         /\ UNCHANGED <<w_attempt, w_waits>>

\* download_dataset, lines 68-82: the destination is the caller's output_path,
\* or RAW_DIR / "<key.lower()>_<timestamp to the second>.<format>".
StartRun(r) ==
    /\ w_pc[r] = "idle"
    /\ \E key \in {"MCMIS_CENSUS"}, now \in {0, 1}, output_path \in {"", "out.csv"} :
          w_path' = [w_path EXCEPT ![r] = IF output_path # "" THEN <<output_path>>
                                          ELSE <<"mcmis_census", now, "csv">>]
    /\ w_pc' = [w_pc EXCEPT ![r] = "get"]
    /\ UNCHANGED <<files, w_attempt, w_response, w_offset, w_waits, w_partial>>

\* Lines 118-131: session.get and raise_for_status fail, or a response of one to
\* MaxChunks chunks arrives; a gzip response is decompressed (which can fail)
\* before anything is written.
Get(r) ==
    /\ w_pc[r] = "get"
    /\ \/ /\ AttemptFailed(r)
          /\ UNCHANGED <<w_response, w_offset>>
       \/ \E n \in 1..MaxChunks, gzip \in BOOLEAN :
             /\ w_response' = [w_response EXCEPT ![r] =
                                  [content |-> [i \in 1..n |-> <<r, w_attempt[r], i>>],
                                   gzip |-> gzip]]
             /\ w_pc' = [w_pc EXCEPT ![r] = "open"]
             /\ UNCHANGED <<w_attempt, w_waits, w_offset>>
    /\ UNCHANGED <<files, w_path, w_partial>>

\* A handle that keeps what the file holds (mode 'ab' or 'r+b').
OpenKeeping(r) ==
    /\ w_pc[r] = "open"
    /\ w_offset' = [w_offset EXCEPT ![r] = 0]
    /\ w_pc' = [w_pc EXCEPT ![r] = "write"]
    /\ UNCHANGED <<files, w_path, w_attempt, w_response, w_waits, w_partial>>
\* write_bytes (line 131) and open('wb') (line 133): the file is created or cut
\* to length zero, whatever it holds and whoever else has it open.
Open(r) ==
    /\ w_pc[r] = "open"
    /\ files' = [files EXCEPT ![w_path[r]] = <<>>]
    /\ w_offset' = [w_offset EXCEPT ![r] = 0]
    /\ w_pc' = [w_pc EXCEPT ![r] = "write"]
    /\ UNCHANGED <<w_path, w_attempt, w_response, w_waits, w_partial>>

\* A write that waits until no other run has the destination open.
WriteChunkLocked(r) ==
    /\ w_pc[r] = "write"
    /\ \A o \in Runs \ {r} : ~(w_pc[o] = "write" /\ w_path[o] = w_path[r])
    /\ w_offset[r] < Len(w_response[r].content)
    /\ LET chunks == IF w_response[r].gzip THEN w_response[r].content
                     ELSE <<w_response[r].content[w_offset[r] + 1]>>
           old == files[w_path[r]]
           end == w_offset[r] + Len(chunks)
       IN  /\ files' = [files EXCEPT ![w_path[r]] =
                           [i \in 1..(IF Len(old) > end THEN Len(old) ELSE end) |->
                               IF i \in (w_offset[r] + 1)..end THEN chunks[i - w_offset[r]]
                               ELSE IF i <= Len(old) THEN old[i] ELSE Hole]]
           /\ w_offset' = [w_offset EXCEPT ![r] = end]
    /\ UNCHANGED <<w_pc, w_path, w_attempt, w_response, w_waits, w_partial>>
\* Line 131 (the whole content at once) and lines 134-136 (one chunk): the
\* bytes go to the handle's own position in the destination file.
WriteChunk(r) ==
    /\ w_pc[r] = "write"
    /\ w_offset[r] < Len(w_response[r].content)
    /\ LET chunks == IF w_response[r].gzip THEN w_response[r].content
                     ELSE <<w_response[r].content[w_offset[r] + 1]>>
           old == files[w_path[r]]
           end == w_offset[r] + Len(chunks)
       IN  /\ files' = [files EXCEPT ![w_path[r]] =
                           [i \in 1..(IF Len(old) > end THEN Len(old) ELSE end) |->
                               IF i \in (w_offset[r] + 1)..end THEN chunks[i - w_offset[r]]
                               ELSE IF i <= Len(old) THEN old[i] ELSE Hole]]
           /\ w_offset' = [w_offset EXCEPT ![r] = end]
    /\ UNCHANGED <<w_pc, w_path, w_attempt, w_response, w_waits, w_partial>>

\* Line 134: iter_content raises while the body is streamed, after any number
\* of chunks was written; the handle is closed and the attempt has failed.
StreamFails(r) ==
    /\ w_pc[r] = "write"
    /\ ~w_response[r].gzip
    /\ AttemptFailed(r)
    /\ w_partial' = [w_partial EXCEPT ![r] = @ \/ w_offset[r] > 0]
    /\ UNCHANGED <<files, w_path, w_response, w_offset>>

\* Line 138: everything is written, the handle is closed, the response returned.
Close(r) ==
    /\ w_pc[r] = "write"
    /\ w_offset[r] = Len(w_response[r].content)
    /\ w_pc' = [w_pc EXCEPT ![r] = "returned"]
    /\ UNCHANGED <<files, w_path, w_attempt, w_response, w_offset, w_waits, w_partial>>

WrInit ==
    /\ files = [p \in {<<"out.csv">>} \cup {<<"mcmis_census", now, "csv">> : now \in {0, 1}} |-> <<>>]
    /\ w_pc = [r \in Runs |-> "idle"]
    /\ w_path = [r \in Runs |-> <<>>]
    /\ w_attempt = [r \in Runs |-> 0]
    /\ w_response = [r \in Runs |-> [content |-> <<>>, gzip |-> FALSE]]
    /\ w_offset = [r \in Runs |-> 0]
    /\ w_waits = [r \in Runs |-> <<>>]
    /\ w_partial = [r \in Runs |-> FALSE]

(***************************************************************************)
(* FMCSAFixedWidthParser (parsers.py).  A line is the sequence of its      *)
(* characters, without its line end; a table is the sequence of its rows.  *)
(***************************************************************************)
MaxLines == 3
MaxChunkSize == 3

\* A parser that leaves a field empty unless the line holds the whole field
\* (and drops every blank of a field it reads).
_parse_chunk_whole_fields(lines, field_specs) ==
    LET row(line) ==
            [f \in {field_specs[k][1] : k \in 1..Len(field_specs)} |->
                LET spec == field_specs[CHOOSE k \in 1..Len(field_specs) :
                                           /\ field_specs[k][1] = f
                                           /\ \A j \in (k + 1)..Len(field_specs) :
                                                 field_specs[j][1] # f]
                IN  IF spec[2] + spec[3] <= Len(line)
                    THEN SelectSeq(SubSeq(line, spec[2] + 1, spec[2] + spec[3]),
                                   LAMBDA c : c # " ")
                    ELSE <<>>]
        kept == SelectSeq(lines, LAMBDA line : Len(line) # 0)
    IN  [i \in 1..Len(kept) |-> row(kept[i])]
\* Lines 174-190: an empty line gives no row; a field is
\* line[start_pos:min(start_pos + length, len(line))].strip() when start_pos is
\* inside the line and "" otherwise; a later field of the same name replaces an
\* earlier one.
_parse_chunk(lines, field_specs) ==
    LET RECURSIVE lstrip(_)
        lstrip(t) == IF t # <<>> /\ Head(t) = " " THEN lstrip(Tail(t)) ELSE t
        RECURSIVE rstrip(_)
        rstrip(t) == IF t # <<>> /\ t[Len(t)] = " " THEN rstrip(SubSeq(t, 1, Len(t) - 1)) ELSE t
        value(line, start_pos, length) ==
            LET end_pos == IF start_pos + length < Len(line) THEN start_pos + length
                           ELSE Len(line)
            IN  IF start_pos < Len(line)
                THEN rstrip(lstrip(SubSeq(line, start_pos + 1, end_pos)))
                ELSE <<>>
        row(line) ==
            [f \in {field_specs[k][1] : k \in 1..Len(field_specs)} |->
                LET spec == field_specs[CHOOSE k \in 1..Len(field_specs) :
                                           /\ field_specs[k][1] = f
                                           /\ \A j \in (k + 1)..Len(field_specs) :
                                                 field_specs[j][1] # f]
                IN  value(line, spec[2], spec[3])]
        kept == SelectSeq(lines, LAMBDA line : Len(line) # 0)
    IN  [i \in 1..Len(kept) |-> row(kept[i])]

\* A reader that parses full batches only.
parse_full_batches(lines, field_specs, chunk_size) ==
    LET RECURSIVE read(_, _, _)
        read(rest, chunk_lines, chunks) ==
            IF rest = <<>> THEN chunks
            ELSE LET appended == Append(chunk_lines, Head(rest))
                 IN  IF Len(appended) >= chunk_size
                     THEN read(Tail(rest), <<>>, chunks \o _parse_chunk(appended, field_specs))
                     ELSE read(Tail(rest), appended, chunks)
    IN  read(lines, <<>>, <<>>)
\* Lines 135-172: the lines are collected into chunk_lines, parsed whenever
\* chunk_size lines are collected and once more for the lines that remain; the
\* tables are concatenated in order with a new index (an empty table when there
\* was no line).
parse_to_dataframe(lines, field_specs, chunk_size) ==
    LET RECURSIVE read(_, _, _)
        read(rest, chunk_lines, chunks) ==
            IF rest = <<>>
            THEN IF chunk_lines # <<>> THEN chunks \o _parse_chunk(chunk_lines, field_specs)
                 ELSE chunks
            ELSE LET appended == Append(chunk_lines, Head(rest))
                 IN  IF Len(appended) >= chunk_size
                     THEN read(Tail(rest), <<>>, chunks \o _parse_chunk(appended, field_specs))
                     ELSE read(Tail(rest), appended, chunks)
    IN  read(lines, <<>>, <<>>)

\* Files of up to MaxLines lines: empty, blank, shorter than a field, ending
\* inside a field, and longer than all fields.
ParseInputs ==
    SeqsUpTo({<<>>, <<" ">>, <<"1", "2">>, <<"1", " ", " ", "A">>, <<" ", "7", "B", " ", "C">>,
              <<"1", "2", "A", "B", "C", "D">>}, 0, MaxLines)

\* One file is parsed with every chunk_size from 1 to MaxChunkSize and with the
\* default of 10000.
ApplyParse ==
    /\ fn_pc = "idle"
    /\ \E lines \in ParseInputs,
          field_specs \in {<<<<"dot", 0, 2>>, <<"name", 2, 3>>>>,
                           <<<<"name", 1, 3>>, <<"dot", 4, 1>>, <<"name", 0, 1>>>>} :
          /\ fn_in' = [lines |-> lines, field_specs |-> field_specs]
          /\ fn_out' = [chunk_size \in (1..MaxChunkSize) \cup {10000} |->
                           parse_to_dataframe(lines, field_specs, chunk_size)]
    /\ fn_pc' = "parse"

FnInit == fn_in = <<>> /\ fn_out = <<>> /\ fn_pc = "idle"
DlInit ==
    /\ dl_pc = "idle" /\ dl_mode = "" /\ dl_queue = <<>> /\ dl_key = ""
    /\ attempt = 0 /\ last_exception = "" /\ attempt_log = <<>>
    /\ dl_results = {} /\ dl_visited = <<>> /\ dl_succeeded = {} /\ dl_raised = ""
    /\ dl_escaped = ""

Init == ScoreInit /\ FnInit /\ DlInit /\ CliInit /\ WrInit

Next ==
    \/ CallAny /\ UNCHANGED <<fn_vars, dl_vars, cli_vars, wr_vars>>
    \/ GrowthStep /\ UNCHANGED <<fn_vars, dl_vars, cli_vars, wr_vars>>
    \/ LegitimacyStep /\ UNCHANGED <<fn_vars, dl_vars, cli_vars, wr_vars>>
    \/ SafetyStep /\ UNCHANGED <<fn_vars, dl_vars, cli_vars, wr_vars>>
    \/ RestStep /\ UNCHANGED <<fn_vars, dl_vars, cli_vars, wr_vars>>

Spec == Init /\ [][Next]_vars

CompositeNext == ApplyComposite /\ UNCHANGED <<score_vars, dl_vars, cli_vars, wr_vars>>
CompositeSpec == Init /\ [][CompositeNext]_vars

TierNext == ApplyTier /\ UNCHANGED <<score_vars, dl_vars, cli_vars, wr_vars>>
TierSpec == Init /\ [][TierNext]_vars

SortNext == ApplySort /\ UNCHANGED <<score_vars, dl_vars, cli_vars, wr_vars>>
SortSpec == Init /\ [][SortNext]_vars

GrowthNext == ApplyGrowth /\ UNCHANGED <<score_vars, dl_vars, cli_vars, wr_vars>>
GrowthSpec == Init /\ [][GrowthNext]_vars

LegitimacyNext == ApplyLegitimacy /\ UNCHANGED <<score_vars, dl_vars, cli_vars, wr_vars>>
LegitimacySpec == Init /\ [][LegitimacyNext]_vars

ArbitrageNext ==
    \/ ApplyCorrelation /\ UNCHANGED <<score_vars, dl_vars, cli_vars, wr_vars>>
    \/ FindCorrelated /\ UNCHANGED <<score_vars, dl_vars, cli_vars, wr_vars>>
    \/ Detect /\ UNCHANGED <<score_vars, dl_vars, cli_vars, wr_vars>>
    \/ Truncate /\ UNCHANGED <<score_vars, dl_vars, cli_vars, wr_vars>>
ArbitrageSpec == Init /\ [][ArbitrageNext]_vars

FilterNext ==
    \/ ApplyStateFilter /\ UNCHANGED <<score_vars, dl_vars, cli_vars, wr_vars>>
    \/ ApplyLeadFilter /\ UNCHANGED <<score_vars, dl_vars, cli_vars, wr_vars>>
FilterSpec == Init /\ [][FilterNext]_vars

DownloadNext ==
    \/ StartAll /\ UNCHANGED <<score_vars, fn_vars, cli_vars, wr_vars>>
    \/ StartSingle /\ UNCHANGED <<score_vars, fn_vars, cli_vars, wr_vars>>
    \/ NextDataset /\ UNCHANGED <<score_vars, fn_vars, cli_vars, wr_vars>>
    \/ Attempt /\ UNCHANGED <<score_vars, fn_vars, cli_vars, wr_vars>>
    \/ Exhausted /\ UNCHANGED <<score_vars, fn_vars, cli_vars, wr_vars>>
    \/ StoreResult /\ UNCHANGED <<score_vars, fn_vars, cli_vars, wr_vars>>
    \/ CatchAndContinue /\ UNCHANGED <<score_vars, fn_vars, cli_vars, wr_vars>>
    \/ ReturnAll /\ UNCHANGED <<score_vars, fn_vars, cli_vars, wr_vars>>
    \/ ReturnSingle /\ UNCHANGED <<score_vars, fn_vars, cli_vars, wr_vars>>
    \/ PropagateSingle /\ UNCHANGED <<score_vars, fn_vars, cli_vars, wr_vars>>
DownloadSpec == Init /\ [][DownloadNext]_vars

ValidateNext == ApplyValidate /\ UNCHANGED <<score_vars, dl_vars, cli_vars, wr_vars>>
ValidateSpec == Init /\ [][ValidateNext]_vars

CliNext ==
    \/ MainStart /\ UNCHANGED <<score_vars, fn_vars, dl_vars, wr_vars>>
    \/ DownloadPhase /\ UNCHANGED <<score_vars, fn_vars, dl_vars, wr_vars>>
    \/ ExplicitProcessing /\ UNCHANGED <<score_vars, fn_vars, dl_vars, wr_vars>>
    \/ AutoProcess /\ UNCHANGED <<score_vars, fn_vars, dl_vars, wr_vars>>
    \/ MergePhase /\ UNCHANGED <<score_vars, fn_vars, dl_vars, wr_vars>>
    \/ ScorePhase /\ UNCHANGED <<score_vars, fn_vars, dl_vars, wr_vars>>
CliSpec == Init /\ [][CliNext]_vars

WriteNext ==
    \/ \E r \in Runs : StartRun(r) /\ UNCHANGED <<score_vars, fn_vars, dl_vars, cli_vars>>
    \/ \E r \in Runs : Get(r) /\ UNCHANGED <<score_vars, fn_vars, dl_vars, cli_vars>>
    \/ \E r \in Runs : Open(r) /\ UNCHANGED <<score_vars, fn_vars, dl_vars, cli_vars>>
    \/ \E r \in Runs : WriteChunk(r) /\ UNCHANGED <<score_vars, fn_vars, dl_vars, cli_vars>>
    \/ \E r \in Runs : StreamFails(r) /\ UNCHANGED <<score_vars, fn_vars, dl_vars, cli_vars>>
    \/ \E r \in Runs : Close(r) /\ UNCHANGED <<score_vars, fn_vars, dl_vars, cli_vars>>
WriteSpec == Init /\ [][WriteNext]_vars

ParseNext == ApplyParse /\ UNCHANGED <<score_vars, dl_vars, cli_vars, wr_vars>>
ParseSpec == Init /\ [][ParseNext]_vars

(***************************************************************************)
(* Properties                                                              *)
(***************************************************************************)
ComponentNames == {ComponentOrder[i] : i \in 1..Len(ComponentOrder)}
RECURSIVE SumWeights(_)
SumWeights(i) ==
    IF i > Len(ComponentOrder) THEN 0
    ELSE scoring_weights[ComponentOrder[i]] + SumWeights(i + 1)

\* C1: the composite score of a row is 0.25 growth + 0.20 legitimacy + 0.20 safety
\* + 0.15 contact + 0.10 specialization + 0.10 recency of that row's components
\* (null when a component is null), and the six weights sum to 1.0.
C1_CompositeIsWeightedSum ==
    /\ SumWeights(1) = 100
    /\ fn_pc = "composite" =>
          IF \E name \in ComponentNames : IsNaN(fn_in[name][0])
          THEN IsNaN(fn_out[0])
          ELSE fn_out[0] =
                  Num(25 * fn_in.growth_potential[0][1] + 20 * fn_in.legitimacy[0][1]
                      + 20 * fn_in.safety_compliance[0][1] + 15 * fn_in.contact_quality[0][1]
                      + 10 * fn_in.specialization_value[0][1]
                      + 10 * fn_in.company_recency[0][1])
C1_Witness ==
    /\ fn_pc = "composite"
    /\ fn_in.growth_potential[0] = Num(Pts(5)) /\ fn_in.legitimacy[0] = Num(Pts(4))
    /\ fn_in.safety_compliance[0] = Num(Pts(3)) /\ fn_in.contact_quality[0] = Num(Pts(3))
    /\ fn_in.specialization_value[0] = Num(Pts(1)) /\ fn_in.company_recency[0] = Num(Pts(3))
    /\ fn_out[0] = Num(3500)

\* C2: every component score computed for a row of the census table is a number
\* in [0, 5], with or without enrichment tables.
C2_ComponentsInRange ==
    \A name \in DOMAIN component_scores : \A l \in Labels(census_df) :
        /\ l \in DOMAIN component_scores[name]
        /\ ~IsNaN(component_scores[name][l])
        /\ component_scores[name][l][1] \in Pts(0)..Pts(5)

\* C3: the tier is decided by lower-bound-inclusive cutoffs: [0,2) Low Priority,
\* [2,3.5) Medium Priority, [3.5,5) High Priority, [5,inf) Top Tier.
ClaimedTier(v) ==
    IF v < 2000 THEN "Low Priority"
    ELSE IF v < 3500 THEN "Medium Priority"
    ELSE IF v < 5000 THEN "High Priority"
    ELSE "Top Tier"
C3_LowerBoundInclusiveTiers ==
    (fn_pc = "tier" /\ ~IsNaN(fn_in)) => fn_out = Num(ClaimedTier(fn_in[1]))

\* C4: the returned rows are in descending order of composite score and rows with
\* equal composite score keep their input order.
Descending(rows) ==
    \A i, j \in 1..Len(rows) :
        (i < j /\ ~IsNaN(rows[i].composite_score) /\ ~IsNaN(rows[j].composite_score))
            => rows[i].composite_score[1] >= rows[j].composite_score[1]
TiesKeepInputOrder(rows) ==
    \A i, j \in 1..Len(rows) :
        (i < j /\ rows[i].composite_score = rows[j].composite_score)
            => rows[i].label < rows[j].label
C4_SortedDescendingStable ==
    fn_pc = "sort" => Descending(fn_out) /\ TiesKeepInputOrder(fn_out)

\* C5: from the call on, the census table and the two optional tables are what
\* the caller passed: same rows, columns, values and order.
C5_InputsUnchanged ==
    pc # "idle" => <<census_df, sms_df, li_df>> = called_with
C5_Witness ==
    /\ pc = "done"
    /\ ~sms_df.none /\ ~li_df.none
    /\ HasCol(sms_df, "dot_number") /\ HasCol(li_df, "dot_number")
    /\ {"growth_potential", "legitimacy", "safety_compliance"} \subseteq DOMAIN component_scores
    /\ <<census_df, sms_df, li_df>> = called_with

\* C6: with the enrichment tables absent (None, or without dot_number) scoring does
\* not raise, and safety is 3, growth the fleet-size bucket, legitimacy the
\* entity-type base, for every row.
Absent(df) == df.none \/ ~HasCol(df, "dot_number")
C6_AbsentEnrichmentDegrades ==
    (pc = "done" /\ Absent(sms_df) /\ Absent(li_df) /\ CensusCols \subseteq census_df.cols) =>
        /\ result.ok
        /\ component_scores.safety_compliance = [l \in Labels(census_df) |-> Num(Pts(3))]
        /\ component_scores.growth_potential = FleetScores(census_df)
        /\ component_scores.legitimacy = LegitimacyBase(census_df)

\* C7: a census row whose dot_number has no row in a supplied enrichment table keeps
\* the neutral score of each component that joins that table.
Unmatched(df, l) ==
    /\ ~Absent(df)
    /\ \A i \in 1..Len(df.rows) : df.rows[i].dot_number # RowAt(census_df, l).dot_number
C7_UnmatchedRowsNeutral ==
    \A l \in Labels(census_df) :
        /\ ("growth_potential" \in DOMAIN component_scores /\ Unmatched(sms_df, l))
              => component_scores.growth_potential[l] = FleetScores(census_df)[l]
        /\ ("legitimacy" \in DOMAIN component_scores /\ Unmatched(li_df, l))
              => component_scores.legitimacy[l] = LegitimacyBase(census_df)[l]
        /\ ("safety_compliance" \in DOMAIN component_scores /\ Unmatched(sms_df, l))
              => component_scores.safety_compliance[l] = Num(Pts(3))

\* C8: a call made with an expected column missing from the census table or from a
\* supplied enrichment table still returns.
ColumnMissing ==
    \/ ~(CensusCols \subseteq census_df.cols)
    \/ ~Absent(sms_df) /\ ~(SmsCols \subseteq sms_df.cols)
    \/ ~Absent(li_df) /\ ~(LiCols \subseteq li_df.cols)
C8_MissingColumnStillReturns ==
    (pc = "done" /\ ColumnMissing) => result.ok

\* C9: the retry loop makes at most max_retries attempts, makes none after a
\* success, and when every attempt failed the exception of the last attempt is
\* what download_dataset raises and what reaches its caller.
C9_RetryBoundedLastRaised ==
    /\ Len(attempt_log) <= 3
    /\ \A i \in 1..(Len(attempt_log) - 1) : attempt_log[i] # "ok"
    /\ (dl_pc = "dataset_ok") => attempt_log[Len(attempt_log)] = "ok"
    /\ (dl_pc \in {"dataset_failed", "raised"} /\ attempt_log # <<>>) =>
          /\ Len(attempt_log) = 3
          /\ \A i \in 1..3 : attempt_log[i] # "ok"
          /\ dl_raised = attempt_log[3]
    /\ (dl_pc = "raised" /\ attempt_log # <<>>) => dl_escaped = attempt_log[3]
C9_Witness ==
    /\ dl_pc = "raised"
    /\ attempt_log = <<"Timeout", "Timeout", "HTTPError">>
    /\ dl_escaped = "HTTPError"

\* C10: download_all_datasets attempts every dataset of the registry in turn, no
\* failure leaves it, and the mapping returned holds exactly the datasets whose
\* download succeeded.
C10_AllDatasetsAttempted ==
    dl_mode = "all" =>
        /\ dl_escaped = "" /\ dl_pc # "raised"
        /\ dl_pc = "returned" =>
              /\ dl_visited = FMCSA_ENDPOINTS
              /\ dl_results = dl_succeeded
C10_Witness ==
    /\ dl_mode = "all" /\ dl_pc = "returned"
    /\ dl_visited = FMCSA_ENDPOINTS
    /\ dl_results = {"MCMIS_CENSUS", "INSPECTIONS"}

\* C11: without safety enrichment the growth score of a row is its fleet-size
\* bucket ([0,1] 0, (1,5] 1, (5,10] 2, (10,20] 3, (20,50] 4, above 50 5, a null
\* or non-numeric fleet size counting as 0), and a row whose growth score is the
\* highest of the table ranks first when the other components are equal.
ClaimedFleetBucket(c) ==
    LET v == IF Len(c) = 1 THEN c[1] ELSE 0
    IN  IF v <= 1 THEN 0 ELSE IF v <= 5 THEN 1 ELSE IF v <= 10 THEN 2
        ELSE IF v <= 20 THEN 3 ELSE IF v <= 50 THEN 4 ELSE 5
StatusIs(cell, words) == ~IsNaN(cell) /\ LowerCase(cell[1]) \in words
ClaimedLegitimacy(row, li) ==
    LET text == {LowerOrEmpty(row.entity_type), LowerOrEmpty(row.carrier_operation)}
        base == 3 + BoolInt("carrier" \in text) + BoolInt("broker" \in text)
        licence ==
            IF li.none THEN 0
            ELSE BoolInt(StatusIs(li.rows[1].authority_status, {"active"}))
                 - 2 * BoolInt(StatusIs(li.rows[1].authority_status, {"revoked", "suspended"}))
                 + BoolInt(StatusIs(li.rows[1].bond_status, {"active", "valid"}))
                 + BoolInt(NumericOr(li.rows[1].bond_amount, 0) >= 75000)
        total == base + licence
    IN  IF total < 0 THEN 0 ELSE IF total > 5 THEN 5 ELSE total
C12_LegitimacyFormula ==
    fn_pc = "legitimacy" =>
        /\ fn_out.ok
        /\ fn_out.val[0] = Num(10 * ClaimedLegitimacy(fn_in[1].rows[1], fn_in[2]))

\* C13: the correlation score of two markets is min(1, 0.3 J(tags) + 0.4 J(title
\* words, lower-cased) + 0.2 [same category] + 0.1 [same series]), J being 0 for
\* an empty union; it is in [0,1] and the same in both directions.
ClaimedSeries(m) == IF Len(m.ticker) > 1 THEN m.ticker[1] ELSE m.category
C13_CorrelationFormula ==
    fn_pc = "correlation" =>
        LET m1 == fn_in[1]
            m2 == fn_in[2]
            w1 == {LowerCase(m1.title[i]) : i \in 1..Len(m1.title)}
            w2 == {LowerCase(m2.title[i]) : i \in 1..Len(m2.title)}
            tagsUnion == Cardinality(m1.tags \cup m2.tags)
            wordsUnion == Cardinality(w1 \cup w2)
            \* 14400 times the claimed sum, every term over its own denominator
            tagsTerm == IF tagsUnion = 0 THEN 0
                        ELSE (360 * Cardinality(m1.tags \cap m2.tags) * 12) \div tagsUnion
            wordsTerm == IF wordsUnion = 0 THEN 0
                         ELSE (480 * Cardinality(w1 \cap w2) * 12) \div wordsUnion
            total == tagsTerm + wordsTerm
                     + (IF m1.category = m2.category THEN 2880 ELSE 0)
                     + (IF ClaimedSeries(m1) = ClaimedSeries(m2) THEN 1440 ELSE 0)
        IN  /\ 120 * fn_out[1] = (IF total < 14400 THEN total ELSE 14400)
            /\ fn_out[1] \in 0..120
            /\ fn_out[1] = fn_out[2]
C13_Witness ==
    /\ fn_pc = "correlation"
    /\ fn_in[1].tags = {"election"} /\ fn_in[2].tags = {"election", "senate"}
    /\ fn_in[1].title = <<"Trump", "wins">> /\ fn_in[2].title = <<"trump", "loses">>
    /\ fn_in[1].category = "politics" /\ fn_in[2].category = "politics"
    /\ fn_in[1].ticker = <<"PRES", "A">> /\ fn_in[2].ticker = <<"SEN">>
    /\ fn_out = <<58, 58>>

\* C14: find_correlated_markets returns exactly the pairs of distinct kept markets
\* of one series group whose correlation score is at least the threshold, each
\* once, a score equal to the threshold included.
C14_CorrelatedPairs ==
    fn_pc = "correlated" =>
        LET kept == {fn_in.markets[i] : i \in
                        {h \in 1..Len(fn_in.markets) : KeptByTags(fn_in.markets[h], fn_in.tags)}}
            expected == {<<a, b>> \in kept \X kept :
                            /\ a.id < b.id
                            /\ ClaimedSeries(a) = ClaimedSeries(b)
                            /\ _calculate_correlation_score(a, b) >= fn_in.threshold}
            pairs == fn_out.pairs
        IN  /\ {<<pairs[k][1], pairs[k][2]>> : k \in 1..Len(pairs)} = expected
            /\ Len(pairs) = Cardinality(expected)
            /\ \A k \in 1..Len(pairs) :
                  pairs[k][3] = _calculate_correlation_score(pairs[k][1], pairs[k][2])
C14_Witness ==
    /\ fn_pc = "correlated"
    /\ fn_in.threshold = 84
    /\ Len(fn_in.markets) = 3
    /\ Len(fn_out.pairs) = 1
    /\ fn_out.pairs[1][3] = 84
    /\ \E i, j \in 1..3 :
          /\ Series(fn_in.markets[i]) # Series(fn_in.markets[j])
          /\ _calculate_correlation_score(fn_in.markets[i], fn_in.markets[j]) >= 84

\* C15: an opportunity is recorded for a correlated pair exactly when the two last
\* prices sum to strictly less than 0.95, and its profit is (1 - sum) * 100.
Detected == fn_pc \in {"detected", "returned"}
PriceSum(p) == p[1].last_price + p[2].last_price
C15_RecordedIffBelow ==
    Detected =>
        LET pairs == fn_out.pairs
            opps == fn_out.opportunities
        IN  /\ Len(opps) = Cardinality({k \in 1..Len(pairs) : PriceSum(pairs[k]) < 95})
            /\ \A k \in 1..Len(pairs) :
                  PriceSum(pairs[k]) < 95 <=>
                      \E o \in 1..Len(opps) : opps[o].markets = <<pairs[k][1], pairs[k][2]>>
            /\ \A o \in 1..Len(opps) :
                  opps[o].potential_profit = 100 - PriceSum(opps[o].markets)
C15_Witness ==
    /\ fn_pc = "detected"
    /\ Len(fn_out.pairs) = 2
    /\ PriceSum(fn_out.pairs[1]) = 95 /\ PriceSum(fn_out.pairs[2]) = 94
    /\ Len(fn_out.opportunities) = 1
    /\ fn_out.opportunities[1].potential_profit = 6

\* C16: the confidence of a recorded opportunity is min(correlation, 0.9) and its
\* risk is Low for an average 24h volume above 10000, Medium above 1000 and up to
\* 10000, High otherwise.
VolumeSum(o) == o.markets[1].volume_24h + o.markets[2].volume_24h
C16_ConfidenceAndRisk ==
    Detected =>
        \A o \in 1..Len(fn_out.opportunities) :
            LET opp == fn_out.opportunities[o]
            IN  /\ \E k \in 1..Len(fn_out.pairs) :
                      /\ opp.markets = <<fn_out.pairs[k][1], fn_out.pairs[k][2]>>
                      /\ opp.confidence_score =
                            (IF fn_out.pairs[k][3] < 108 THEN fn_out.pairs[k][3] ELSE 108)
                /\ opp.risk_level =
                      (IF VolumeSum(opp) > 20000 THEN "Low"
                       ELSE IF VolumeSum(opp) > 2000 THEN "Medium" ELSE "High")
C16_Witness ==
    /\ fn_pc = "detected"
    /\ Len(fn_out.opportunities) = 2
    /\ VolumeSum(fn_out.opportunities[1]) = 20000
    /\ fn_out.opportunities[1].risk_level = "Medium"
    /\ fn_out.opportunities[1].confidence_score = 108
    /\ VolumeSum(fn_out.opportunities[2]) = 2000
    /\ fn_out.opportunities[2].risk_level = "High"
    /\ fn_out.opportunities[2].confidence_score = 84

\* C17 (as stated): one correlated pair with last prices 0.40 and 0.45 and
\* correlation 0.7 gives exactly one opportunity, with profit 15.0 and
\* confidence 0.63.
Scenario17 ==
    /\ Detected
    /\ Len(fn_out.pairs) = 1
    /\ fn_out.pairs[1][1].last_price = 40 /\ fn_out.pairs[1][2].last_price = 45
    /\ fn_out.pairs[1][3] = 84
C17_ScenarioAsStated ==
    Scenario17 =>
        /\ Len(fn_out.opportunities) = 1
        /\ fn_out.opportunities[1].potential_profit = 15
        /\ 100 * fn_out.opportunities[1].confidence_score = 63 * 120
\* C17 (amended): in that scenario exactly one opportunity is recorded, with profit
\* 15.0, a risk tier given by the average 24h volume, and confidence 0.7, which is
\* min(0.7, 0.9).
C17_ScenarioConfidenceIsCorrelation ==
    Scenario17 =>
        /\ Len(fn_out.opportunities) = 1
        /\ fn_out.opportunities[1].potential_profit = 15
        /\ 100 * fn_out.opportunities[1].confidence_score = 70 * 120
        /\ fn_out.opportunities[1].risk_level \in {"Low", "Medium", "High"}
C17_Witness ==
    /\ Scenario17
    /\ fn_pc = "detected"
    /\ fn_in.pairs = find_correlated_markets(
                         <<[fn_out.pairs[1][1] EXCEPT !.id = 1], [fn_out.pairs[1][2] EXCEPT !.id = 2]>>,
                         <<>>, 72)
    /\ fn_out.opportunities[1].confidence_score = 84
    /\ fn_out.opportunities[1].risk_level = "High"

\* C18: the opportunities are in descending order of profit and find_opportunities
\* returns the first max_opportunities of them: at most max_opportunities, and
\* none with a lower profit than one it leaves out.
C18_SortedAndTruncated ==
    /\ Detected =>
          \A i, j \in 1..Len(fn_out.opportunities) :
              i < j => fn_out.opportunities[i].potential_profit
                          >= fn_out.opportunities[j].potential_profit
    /\ fn_pc = "returned" =>
          LET opps == fn_out.opportunities
              ret == fn_out.returned
          IN  /\ Len(ret) <= fn_out.max_opportunities
              /\ Len(ret) <= Len(opps)
              /\ \A i \in 1..Len(ret) : ret[i] = opps[i]
              /\ Len(ret) < Len(opps) => Len(ret) = fn_out.max_opportunities
              /\ \A i \in 1..Len(ret), j \in (Len(ret) + 1)..Len(opps) :
                    ret[i].potential_profit >= opps[j].potential_profit
C18_Witness ==
    /\ fn_pc = "returned"
    /\ fn_out.max_opportunities = 1
    /\ Len(fn_out.opportunities) = 2
    /\ PriceSum(fn_out.pairs[1]) > PriceSum(fn_out.pairs[2])
    /\ fn_out.opportunities[1].potential_profit > fn_out.opportunities[2].potential_profit
    /\ fn_out.returned = <<fn_out.opportunities[1]>>

\* C19: a state filter returns exactly the parsed rows whose phy_state, upper-cased,
\* is one of the requested codes, upper-cased.
C19_StateFilterExact ==
    fn_pc = "state_filter" =>
        LET wanted == {UpperCase(fn_in.states[i]) : i \in 1..Len(fn_in.states)}
            matches(r) == ~IsNaN(r.phy_state) /\ UpperCase(r.phy_state[1]) \in wanted
        IN  /\ \A k \in 1..Len(fn_out) : matches(fn_out[k])
            /\ {fn_out[k].label : k \in 1..Len(fn_out)}
                  = {r.label : r \in {x \in {fn_in.df.rows[i] : i \in 1..Len(fn_in.df.rows)} :
                                         matches(x)}}
            /\ \A k \in 1..Len(fn_out) : fn_out[k] = RowAt(fn_in.df, fn_out[k].label)
            /\ \A j, k \in 1..Len(fn_out) : j < k => fn_out[j].label < fn_out[k].label
C19_Witness ==
    /\ fn_pc = "state_filter"
    /\ fn_in.states = <<"tx", "CA">>
    /\ Len(fn_in.df.rows) = 2
    /\ fn_in.df.rows[1].phy_state = NaN
    /\ fn_in.df.rows[2].phy_state = Num("tx")
    /\ fn_out = <<fn_in.df.rows[2]>>

\* C20: every row FMCALeadGenerator.filter_carriers returns has its state among
\* the requested states, a fleet size of at least min_fleet_size and an equipment
\* column matching one of the requested types; without any equipment column the
\* result is empty.
C20_AllCriteriaTogether ==
    fn_pc = "lead_filter" =>
        /\ \A k \in 1..Len(fn_out) :
              /\ fn_in.states # <<>> =>
                    /\ ~IsNaN(fn_out[k].phy_state)
                    /\ UpperCase(fn_out[k].phy_state[1])
                          \in {UpperCase(fn_in.states[i]) : i \in 1..Len(fn_in.states)}
              /\ NumericOr(fn_out[k].fleet_size, 0) >= fn_in.min_fleet_size
              /\ fn_in.equipment_types # <<>> =>
                    /\ "cargo_type" \in fn_in.df.cols
                    /\ ~IsNaN(fn_out[k].cargo_type)
                    /\ LowerCase(fn_out[k].cargo_type[1]) = "reefer"
        /\ (fn_in.equipment_types # <<>> /\ "cargo_type" \notin fn_in.df.cols) => fn_out = <<>>

\* C21: validation issues never block processing: whatever the number of invalid
\* DOT-number formats, duplicate DOT numbers and fields with a high null rate,
\* validate_carrier_data returns its result, with the issues among the warnings,
\* and raises nothing (required fields all present).
C21_IssuesNeverBlock ==
    (fn_pc = "validate"
       /\ \A i \in 1..Len(fn_in.required_fields) : fn_in.required_fields[i] \in fn_in.df.cols)
    => /\ fn_out.ok
       /\ fn_out.val.errors = <<>>
       /\ (\E i \in 1..Len(fn_in.df.rows) :
              "dot_number" \in fn_in.df.cols /\ ~validate_dot_number(fn_in.df.rows[i].dot_number))
          => \E w \in 1..Len(fn_out.val.warnings) : fn_out.val.warnings[w].warning = "invalid"

\* The action flags set in the parsed arguments.
FlagsSet ==
    {f \in {"download_all", "process_census", "process_safety", "process_inspections",
            "merge_all", "score_leads"} : args[f]}
\* The calls that belong to the phase of an action flag.
OwnCalls(f) ==
    CASE f = "download_all" -> {"download_all_datasets"}
      [] f = "merge_all" -> {"merge_datasets"}
      [] f = "score_leads" -> {"score_leads_template", "census_file_required"}
      [] OTHER -> {f}
Logged == {cli_log[i] : i \in 1..Len(cli_log)}

\* C22: invoked with none of the action flags, main prints the usage and returns
\* normally without any download, processing, merge or scoring; invoked with one
\* action flag alone, it makes only the calls of that flag's phase.
C22_OnlyOwnPhase ==
    cli_pc # "idle" =>
        /\ FlagsSet = {} => (cli_pc = "returned" /\ cli_log = <<"print_help">>)
        /\ \A f \in FlagsSet : FlagsSet = {f} => Logged \subseteq OwnCalls(f)

\* The rank of a logged call in the order download, census, safety, inspections,
\* auto-processing, merge, scoring.
PhaseRank(call) ==
    CASE call = "download_all_datasets" -> 1
      [] call = "process_census" -> 2
      [] call = "process_safety" -> 3
      [] call = "process_inspections" -> 4
      [] call = "merge_datasets" -> 6
      [] call \in {"score_leads_template", "census_file_required"} -> 7
      [] OTHER -> 5
AutoFailed == \E n \in {"census", "safety", "inspections"} : ("auto_failed_" \o n) \in Logged
MainEnded == cli_pc \in {"returned", "raised"}

\* C28: the phases run in the order download, explicit processing (census,
\* safety, inspections), auto-processing, merge, scoring; the merge runs only
\* when merge-all was requested and at least two datasets were processed; and
\* after a failure while auto-processing one downloaded dataset every other
\* downloaded dataset is still processed and the requested later phases still
\* run (a merge that fails although it has census data is the merge's own
\* failure and ends main).
C28_PhaseOrderAndTolerance ==
    /\ \A i, j \in 1..Len(cli_log) : i < j => PhaseRank(cli_log[i]) <= PhaseRank(cli_log[j])
    /\ "merge_datasets" \in Logged => (args.merge_all /\ Cardinality(datasets) > 1)
    /\ (MainEnded /\ AutoFailed) =>
          /\ Cardinality({i \in 1..Len(cli_log) : PhaseRank(cli_log[i]) = 5})
                = Cardinality({i \in 1..Len(downloaded_files) : downloaded_files[i] # "LI_PUBLIC"})
          /\ (args.merge_all /\ Cardinality(datasets) > 1) => "merge_datasets" \in Logged
          /\ (args.score_leads
                /\ ~(cli_pc = "raised" /\ "merge_datasets" \in Logged /\ "census" \in datasets))
             => Logged \cap {"score_leads_template", "census_file_required"} # {}

\* C23: after failed attempt k (counted from 0) that is not the last one the
\* run sleeps retry_delay * 2^k seconds, 5 s and then 10 s, and it does not sleep
\* after the last failed attempt: a run whose max_retries attempts all failed
\* has slept max_retries - 1 times.
C23_BackoffWaits ==
    \A r \in Runs :
        /\ Len(w_waits[r]) = w_attempt[r]
        /\ \A k \in 1..Len(w_waits[r]) : w_waits[r][k] = retry_delay * 2^(k - 1)
        /\ w_waits[r] \in {<<>>, <<5>>, <<5, 10>>}
        /\ w_pc[r] = "raised" => Len(w_waits[r]) = max_retries - 1
\* A run has failed max_retries times and has slept 5 s and 10 s.
C23_Witness == \E r \in Runs : w_pc[r] = "raised" /\ w_waits[r] = <<5, 10>>

\* No other run has chosen the destination of run r.
Alone(r) == \A o \in Runs \ {r} : w_path[o] # w_path[r]

\* C24: two runs that resolve the same destination write to that final path
\* itself, with no lock and no overwrite check: a run that is to open its
\* destination can always do so, a run that has a chunk to write can always
\* write it, whatever the other run is doing, and no other file is ever written.
C24_NoLockNoOverwriteCheck ==
    /\ \A r \in Runs :
          /\ w_pc[r] = "open" => ENABLED Open(r)
          /\ (w_pc[r] = "write" /\ w_offset[r] < Len(w_response[r].content))
                => ENABLED WriteChunk(r)
    /\ \A p \in DOMAIN files : files[p] # <<>> => \E r \in Runs : w_path[r] = p
\* Both runs have returned from the same destination, and the file is the
\* complete payload of neither.
C24_Witness ==
    /\ w_pc = [r \in Runs |-> "returned"]
    /\ w_path[1] = w_path[2]
    /\ \A r \in Runs : files[w_path[r]] # w_response[r].content

\* C29: when an attempt fails after it wrote chunks and a later attempt of the
\* run succeeds, the destination holds exactly the payload of the successful
\* attempt (no other run writing there).
C29_SuccessfulPayloadOnly ==
    \A r \in Runs :
        (w_pc[r] = "returned" /\ Alone(r)) => files[w_path[r]] = w_response[r].content
\* A run returned alone after a failed attempt that had left chunks behind,
\* with a payload shorter than MaxChunks.
C29_Witness ==
    \E r \in Runs :
        /\ w_pc[r] = "returned" /\ Alone(r) /\ w_partial[r]
        /\ Len(w_response[r].content) = 1
        /\ files[w_path[r]] = <<<<r, w_attempt[r], 1>>>>

\* The non-empty lines of the file that was parsed, in file order.
NonEmptyLines == SelectSeq(fn_in.lines, LAMBDA line : line # <<>>)
\* Python's line[start : start + length], then the blanks at both ends removed.
TrimmedSlice(line, start, length) ==
    LET last == IF start + length < Len(line) THEN start + length ELSE Len(line)
        slice == SubSeq(line, start + 1, last)
        inner == {i \in 1..Len(slice) : slice[i] # " "}
    IN  IF inner = {} THEN <<>>
        ELSE SubSeq(slice, CHOOSE i \in inner : \A j \in inner : i <= j,
                           CHOOSE i \in inner : \A j \in inner : i >= j)

\* C25: each non-empty line yields one row in which every field is the trimmed
\* slice line[start : start + length]; a line that ends before the field starts
\* yields the empty string for it.
C25_FieldsAreTrimmedSlices ==
    fn_pc = "parse" =>
        LET df == fn_out[1]
            \* the fields named once in field_specs
            once == {k \in 1..Len(fn_in.field_specs) :
                        \A j \in 1..Len(fn_in.field_specs) :
                            fn_in.field_specs[j][1] = fn_in.field_specs[k][1] => j = k}
        IN  /\ Len(df) = Len(NonEmptyLines)
            /\ \A i \in 1..Len(df) : \A k \in once :
                  LET spec == fn_in.field_specs[k]
                  IN  /\ df[i][spec[1]] = TrimmedSlice(NonEmptyLines[i], spec[2], spec[3])
                      /\ Len(NonEmptyLines[i]) <= spec[2] => df[i][spec[1]] = <<>>
\* A file whose second line ends inside the second field and whose third line
\* ends before it: "1  A" gives dot "1" and name "A", "12" gives name "".
C25_Witness ==
    /\ fn_pc = "parse"
    /\ fn_in.field_specs = <<<<"dot", 0, 2>>, <<"name", 2, 3>>>>
    /\ fn_in.lines = <<<<>>, <<"1", " ", " ", "A">>, <<"1", "2">>>>
    /\ fn_out[1] = <<[dot |-> <<"1">>, name |-> <<"A">>],
                     [dot |-> <<"1", "2">>, name |-> <<>>]>>

\* C30: parse_to_dataframe returns the same rows in the same order for every
\* chunk_size >= 1: one row per non-empty line, in file order.
C30_ChunkSizeUnobservable ==
    fn_pc = "parse" =>
        \A chunk_size \in DOMAIN fn_out :
            /\ fn_out[chunk_size] = fn_out[10000]
            /\ fn_out[chunk_size] = _parse_chunk(NonEmptyLines, fn_in.field_specs)
\* Three lines, the second empty: with chunk_size 2 the first batch holds an
\* empty line and one line remains after the last full batch.
C30_Witness ==
    /\ fn_pc = "parse"
    /\ Len(fn_in.lines) = 3 /\ fn_in.lines[2] = <<>>
    /\ fn_in.lines[1] # <<>> /\ fn_in.lines[3] # <<>> /\ fn_in.lines[1] # fn_in.lines[3]
    /\ Len(fn_out[2]) = 2

\* C26: the composite score is at most 5, so no row is 'Top Tier', and every
\* scored row has one of the tiers, never a missing one.
C26_NeverTopTierNeverMissing ==
    fn_pc = "composite" =>
        /\ ~IsNaN(fn_out[0]) => fn_out[0][1] <= 5000
        /\ LeadTier(fn_out[0]) # Num("Top Tier")
        /\ LeadTier(fn_out[0]) \in {Num("Low Priority"), Num("Medium Priority"),
                                    Num("High Priority"), Num("Top Tier")}

\* The census row at label l on its own, as a table with the default index.
CensusRowAlone(l) == Frame(census_df.cols, <<[RowAt(census_df, l) EXCEPT !.label = 0]>>)
\* The enrichment tables that hold exactly one row of df with the dot_number of
\* the census row at label l, or no row when df has none.
MatchingAlone(df, l) ==
    LET hits == {i \in 1..Len(df.rows) : df.rows[i].dot_number = RowAt(census_df, l).dot_number}
    IN  IF hits = {} THEN {Frame(df.cols, <<>>)}
        ELSE {Frame(df.cols, <<df.rows[i]>>) : i \in hits}
\* The scores a component function gives the census row at label l from the
\* enrichment rows with its dot_number.
ScoresFromMatching(name, df, l) ==
    {r.val[0] : r \in {x \in {CASE name = "growth_potential" ->
                                       _calculate_growth_score(CensusRowAlone(l), m)
                                [] name = "legitimacy" ->
                                       _calculate_legitimacy_score(CensusRowAlone(l), m)
                                [] OTHER -> _calculate_safety_score(CensusRowAlone(l), m) :
                               m \in MatchingAlone(df, l)} : x.ok}}

\* C27: with enrichment tables supplied, the growth, legitimacy and safety score
\* of a census row is computed from enrichment rows with that row's dot_number
\* only, also when an enrichment table holds several rows of one dot_number and
\* when the census labels are not 0..n-1.
C27_EnrichmentByDotNumber ==
    \A l \in Labels(census_df) :
        /\ ("growth_potential" \in DOMAIN component_scores /\ ~Absent(sms_df))
              => component_scores.growth_potential[l]
                    \in ScoresFromMatching("growth_potential", sms_df, l)
        /\ ("legitimacy" \in DOMAIN component_scores /\ ~Absent(li_df))
              => component_scores.legitimacy[l] \in ScoresFromMatching("legitimacy", li_df, l)
        /\ ("safety_compliance" \in DOMAIN component_scores /\ ~Absent(sms_df))
              => component_scores.safety_compliance[l]
                    \in ScoresFromMatching("safety_compliance", sms_df, l)

====
